---- MODULE Spec2Model ----
(***************************************************************************)
(* A model of beachcomb: the ExifTool daemon wrapper (exiftoold.py) and    *)
(* the bin planner / destination assigner (core.py, utils.py).             *)
(*                                                                         *)
(* SpecDaemon models ExifToolDaemon: caller threads in call()/exiftool(),  *)
(* the single worker thread of _worker, a thread calling stop(), and the   *)
(* exiftool subprocess as the environment.                                 *)
(*                                                                         *)
(* SpecPlan models Planner.run up to the end of plan_bins: the records     *)
(* process_file builds, the bins of each (family, subtype) cohort and the  *)
(* destination path _assign_dest gives each record.                        *)
(*                                                                         *)
(* SpecRun models the same run over files with equal and signature-        *)
(* colliding contents, files process_file raises on and files that cannot  *)
(* be hashed, processed by one or two workers, with and without            *)
(* BC_FAIL_OPEN.                                                           *)
(*                                                                         *)
(* SpecTwice runs the planner a second time over the same files in another *)
(* discovery order and keeps the outcome of the first run for comparison.  *)
(*                                                                         *)
(* SpecBins starts where the dedup stage has returned and runs plan_bins    *)
(* over one cohort of up to MaxBinFiles dated files spread over three      *)
(* years.                                                                  *)
(*                                                                         *)
(* SpecCommit models Planner.run stage by stage to its end: the hashing    *)
(* pool of stage_full_hash_for_collisions, write_manifest_csv and          *)
(* commit_moves, under the flags cli.main passes to the Planner.           *)
(***************************************************************************)
EXTENDS Integers, Sequences, FiniteSets, TLC

\* ---------------------------------------------------------------- bounds
MaxCalls  == 2      \* total number of call()/exiftool() invocations
MaxSpawns == 3      \* total number of subprocess instances ever spawned
MaxLines  == 1      \* output lines the subprocess emits per request
MaxFiles  == 3      \* number of files Planner.run discovers
MaxCap    == 2      \* largest max_per_bin tried
MaxWorkers == 2     \* largest number of processing workers tried
MaxBinFiles == 4    \* number of records of a cohort planned on its own

Callers == {"c1", "c2"}
None    == 0

\* ------------------------------------------------------- result triples
NoneResult     == [rc |-> -1,  out |-> <<>>, err |-> "None"]
TimeoutResult  == [rc |-> 124, out |-> <<>>, err |-> "timeout"]
EofResult      == [rc |-> 111, out |-> <<>>, err |-> "eof"]
EpipeResult    == [rc |-> 32,  out |-> <<>>, err |-> "epipe"]
NotFoundResult == [rc |-> 127, out |-> <<>>, err |-> "exiftool-not-found"]
ExceptionResult == [rc |-> 1,  out |-> <<>>, err |-> "exception"]
NoResultResult == [rc |-> 1,   out |-> <<>>, err |-> "no-result"]
NotReturned    == [rc |-> -2,  out |-> <<>>, err |-> "pending"]

\* A line on the subprocess's stdout.  req is the request the subprocess
\* produced the line for; txt is "data" or "error" (an output line, the
\* latter starting with "Error"), "marker" (the -echo3 line "{ready} <id>")
\* or "ready" (the "{ready<id>}" line exiftool prints for -execute<id>).
Line(r, t) == [req |-> r, txt |-> t]

ready_token(rid) == Line(rid, "marker")

LineKinds == {"data", "error"}

VARIABLES
    toolPresent,    \* which("exiftool") finds the tool
    stopping,       \* ExifToolDaemon._stopping
    proc,           \* ExifToolDaemon._proc: None or the pid of the handle
    next_id,        \* ExifToolDaemon._next_id
    q,              \* ExifToolDaemon._q
    reqs,           \* the _Request objects, by req_id
    procs,          \* the subprocess instances ever spawned, by pid
    wpc,            \* position of the worker thread in _worker
    cur,            \* _worker's local req (its req_id), None outside a request
    out_lines,      \* _worker's local out_lines
    expired,        \* time.time() - start >= req.timeout
    cpc,            \* position of each caller thread
    crid,           \* call()'s local rid of each caller
    cret,           \* the last triple returned to each caller
    ncalls,         \* number of invocations started so far
    spc,            \* position of the thread calling stop()
    available_checked, \* module global _available_checked
    available_flag     \* module global _available

dvars == <<toolPresent, stopping, proc, next_id, q, reqs, procs, wpc, cur,
           out_lines, expired, cpc, crid, cret, ncalls, spc,
           available_checked, available_flag>>

\* the planner (core.py)
VARIABLES
    records,        \* Planner.records, in the order the records were appended
    max_per_bin,    \* Planner.max_per_bin
    dest_files,     \* the files that exist in the destination tree
    phase,          \* position of Planner.run
    groups_done,    \* iterations of plan_bins' groups loop completed
    assign_log,     \* the record indexes in the order _assign_dest was called
    source_tree,    \* the files the source tree can hold, with what the
                    \* tools find out about each
    workers,        \* Planner.workers
    fail_open,      \* BC_FAIL_OPEN is set
    files,          \* run's local files: the discovered files, in order
    processed,      \* the indexes of files whose worker(p) has returned
    failures,       \* run's local failures
    bins_plan,      \* the bins_plan lists of the cohorts planned so far
    error,          \* the exception that ended run, "" when none
    commit,         \* Planner.commit (--commit)
    dry_run,        \* Planner.dry_run (--dry-run or not --commit)
    pdf_repair,     \* Planner.pdf_repair
    pdf_ocr,        \* Planner.pdf_ocr
    hash_done,      \* the record indexes whose do_hash has returned
    manifest,       \* the rows of manifest.csv, <<>> while it is not written
    manifest_writes,\* number of times write_manifest_csv has run
    copied,         \* the source files copied into the destination, each
                    \* with the path it was copied to
    first_run       \* what an earlier run over the same files planned

\* what the environment and the command line fix for a run
cfgvars == <<max_per_bin, dest_files, source_tree, workers, fail_open,
             commit, dry_run, pdf_repair, pdf_ocr>>

\* what the stages after bin planning, and the hash workers, leave behind
cvars == <<hash_done, manifest, manifest_writes, copied, first_run>>

pvars == <<records, phase, groups_done, assign_log, files, processed,
           failures, bins_plan, error, cfgvars, cvars>>

vars == <<dvars, pvars>>

\* ------------------------------------------------------------ subprocess
FreshProc == [alive |-> TRUE, inbox |-> <<>>, pipe |-> <<>>, nemit |-> 0]
DeadProc  == [alive |-> FALSE, inbox |-> <<>>, pipe |-> <<>>, nemit |-> 0]

\* A _Request, with three history fields: pid, the subprocess instance the
\* request was (or was to be) written to, late, whether its timeout
\* elapsed before the subprocess had emitted its marker, and seq, its
\* position among the requests put on the queue (0 before the put).
NewRequest(a) == [args |-> a, done |-> FALSE, result |-> NoneResult,
                  pid |-> None, late |-> FALSE, seq |-> 0]
NoRequest     == [args |-> "", done |-> FALSE, result |-> NoneResult,
                  pid |-> None, late |-> FALSE, seq |-> 0]

ArgSet == {"a"}


Pids == 1..Len(procs)

\* the subprocess serving request r has put r's marker into its output
MarkerArrived(r) ==
    /\ reqs[r].pid # None
    /\ \E i \in 1..Len(procs[reqs[r].pid].pipe) :
           procs[reqs[r].pid].pipe[i] = ready_token(r)

\* _kill() run by the worker: the handle's process is killed and _proc is
\* cleared in one step of the owner thread.
KillProc(ps, p) == IF p = None THEN ps ELSE [ps EXCEPT ![p] = DeadProc]

\* _restart() = _kill(); _spawn(), then the assignment of req.result that
\* follows it in the code.  pid records the instance the request was (or was
\* to be) written to.  _spawn raises FileNotFoundError when the tool is
\* missing: the exception leaves the except clause (or is caught by the
\* OSError clause, whose own _restart raises again), the finally clause runs
\* and the exception then ends the worker thread.
Restart(res, pid) ==
    IF toolPresent
    THEN /\ Len(procs) < MaxSpawns
         /\ procs' = Append(KillProc(procs, proc), FreshProc)
         /\ proc' = Len(procs) + 1
         /\ reqs' = [reqs EXCEPT ![cur].result = res, ![cur].pid = pid]
         /\ wpc' = "finally"
    ELSE /\ procs' = KillProc(procs, proc)
         /\ proc' = None
         /\ reqs' = reqs
         /\ wpc' = "finally_raise"

\* ---------------------------------------------------------------- Init
DaemonInit ==
    /\ toolPresent \in BOOLEAN
    /\ stopping = FALSE
    /\ proc = None
    /\ next_id = 1
    /\ q = <<>>
    /\ reqs = [i \in 1..MaxCalls |-> NoRequest]
    /\ procs = <<>>
    /\ wpc = "loop"
    /\ cur = None
    /\ out_lines = <<>>
    /\ expired = FALSE
    /\ cpc = [c \in Callers |-> "idle"]
    /\ crid = [c \in Callers |-> None]
    /\ cret = [c \in Callers |-> NotReturned]
    /\ ncalls = 0
    /\ spc = "idle"
    /\ available_checked = FALSE
    /\ available_flag = FALSE

\* -------------------------------------------------------- worker thread
\* while not self._stopping:
WorkerLoop ==
    /\ wpc = "loop"
    /\ wpc' = IF stopping THEN "exited" ELSE "get"
    /\ UNCHANGED <<pvars, toolPresent, stopping, proc, next_id, q, reqs, procs, cur,
                   out_lines, expired, cpc, crid, cret, ncalls, spc,
                   available_checked, available_flag>>

\* Mutant of WorkerGet: the worker takes the request put last.
WorkerGetLast ==
    /\ wpc = "get"
    /\ IF q # <<>>
       THEN /\ cur' = q[Len(q)]
            /\ q' = SubSeq(q, 1, Len(q) - 1)
            /\ wpc' = "check"
       ELSE /\ wpc' = "loop"
            /\ UNCHANGED <<pvars, cur, q>>
    /\ UNCHANGED <<pvars, toolPresent, stopping, proc, next_id, reqs, procs,
                   out_lines, expired, cpc, crid, cret, ncalls, spc,
                   available_checked, available_flag>>

\* req = self._q.get(timeout=0.1); queue.Empty -> continue
WorkerGet ==
    /\ wpc = "get"
    /\ IF q # <<>>
       THEN /\ cur' = Head(q)
            /\ q' = Tail(q)
            /\ wpc' = "check"
       ELSE /\ wpc' = "loop"
            /\ UNCHANGED <<pvars, cur, q>>
    /\ UNCHANGED <<pvars, toolPresent, stopping, proc, next_id, reqs, procs,
                   out_lines, expired, cpc, crid, cret, ncalls, spc,
                   available_checked, available_flag>>

\* if self._proc is None or self._proc.poll() is not None: self._spawn()
WorkerCheck ==
    /\ wpc = "check"
    /\ IF proc = None \/ ~procs[proc].alive
       THEN IF toolPresent
            THEN /\ Len(procs) < MaxSpawns
                 /\ procs' = Append(KillProc(procs, proc), FreshProc)
                 /\ proc' = Len(procs) + 1
                 /\ wpc' = "write"
            ELSE \* FileNotFoundError is an OSError: the first except clause
                 \* takes it, and its _restart() raises again
                 /\ procs' = KillProc(procs, proc)
                 /\ proc' = None
                 /\ wpc' = "finally_raise"
       ELSE /\ wpc' = "write"
            /\ UNCHANGED <<pvars, proc, procs>>
    /\ UNCHANGED <<pvars, toolPresent, stopping, next_id, q, reqs, cur, out_lines,
                   expired, cpc, crid, cret, ncalls, spc,
                   available_checked, available_flag>>

\* the request is written and flushed; out_lines = []; start = time.time()
WorkerWrite ==
    /\ wpc = "write"
    /\ IF proc = None
       THEN \* self._proc.stdin on None: AttributeError, except Exception
            /\ Restart(ExceptionResult, reqs[cur].pid)
            /\ UNCHANGED <<pvars, out_lines, expired>>
       ELSE IF ~procs[proc].alive
       THEN \* BrokenPipeError
            /\ Restart(EpipeResult, proc)
            /\ UNCHANGED <<pvars, out_lines, expired>>
       ELSE /\ procs' = [procs EXCEPT ![proc].inbox = Append(@, cur)]
            /\ reqs' = [reqs EXCEPT ![cur].pid = proc]
            /\ out_lines' = <<>>
            /\ expired' = FALSE
            /\ wpc' = "timecheck"
            /\ proc' = proc
    /\ UNCHANGED <<pvars, toolPresent, stopping, next_id, q, cur, cpc, crid, cret,
                   ncalls, spc, available_checked, available_flag>>

\* Mutant of WorkerTimeCheck: on timeout the result is set but the
\* subprocess is not restarted.
WorkerTimeCheckNoRestart ==
    /\ wpc = "timecheck"
    /\ IF expired
       THEN /\ reqs' = [reqs EXCEPT ![cur].result = TimeoutResult]
            /\ wpc' = "finally"
            /\ UNCHANGED <<pvars, proc, procs>>
       ELSE /\ wpc' = "readline"
            /\ UNCHANGED <<pvars, proc, procs, reqs>>
    /\ UNCHANGED <<pvars, toolPresent, stopping, next_id, q, cur, out_lines, expired,
                   cpc, crid, cret, ncalls, spc, available_checked,
                   available_flag>>

\* remaining = req.timeout - (time.time() - start); if remaining <= 0: ...
WorkerTimeCheck ==
    /\ wpc = "timecheck"
    /\ IF expired
       THEN Restart(TimeoutResult, reqs[cur].pid)
       ELSE /\ wpc' = "readline"
            /\ UNCHANGED <<pvars, proc, procs, reqs>>
    /\ UNCHANGED <<pvars, toolPresent, stopping, next_id, q, cur, out_lines, expired,
                   cpc, crid, cret, ncalls, spc, available_checked,
                   available_flag>>

ResultOf(lines) ==
    [rc  |-> IF \E i \in 1..Len(lines) : lines[i].txt = "error" THEN 1 ELSE 0,
     out |-> lines,
     err |-> ""]

\* Mutant of WorkerReadline: end-of-file sets the result but the subprocess
\* is not restarted.
WorkerReadlineNoRestart ==
    /\ wpc = "readline"
    /\ IF proc = None
       THEN /\ Restart(ExceptionResult, reqs[cur].pid)
            /\ UNCHANGED out_lines
       ELSE IF procs[proc].pipe # <<>>
       THEN LET line == Head(procs[proc].pipe) IN
            /\ procs' = [procs EXCEPT ![proc].pipe = Tail(@)]
            /\ proc' = proc
            /\ IF line = ready_token(cur)
               THEN /\ reqs' = [reqs EXCEPT ![cur].result = ResultOf(out_lines)]
                    /\ wpc' = "finally"
                    /\ UNCHANGED out_lines
               ELSE /\ out_lines' = Append(out_lines, line)
                    /\ wpc' = "timecheck"
                    /\ UNCHANGED reqs
       ELSE /\ ~procs[proc].alive
            /\ reqs' = [reqs EXCEPT ![cur].result = EofResult]
            /\ wpc' = "finally"
            /\ UNCHANGED <<pvars, proc, procs, out_lines>>
    /\ UNCHANGED <<pvars, toolPresent, stopping, next_id, q, cur, expired, cpc, crid,
                   cret, ncalls, spc, available_checked, available_flag>>

\* line = self._proc.stdout.readline(): blocks until the pipe holds a line
\* or is at end-of-file
WorkerReadline ==
    /\ wpc = "readline"
    /\ IF proc = None
       THEN \* self._proc.stdout on None: AttributeError, except Exception
            /\ Restart(ExceptionResult, reqs[cur].pid)
            /\ UNCHANGED out_lines
       ELSE IF procs[proc].pipe # <<>>
       THEN LET line == Head(procs[proc].pipe) IN
            /\ procs' = [procs EXCEPT ![proc].pipe = Tail(@)]
            /\ proc' = proc
            /\ IF line = ready_token(cur)
               THEN /\ reqs' = [reqs EXCEPT ![cur].result = ResultOf(out_lines)]
                    /\ wpc' = "finally"
                    /\ UNCHANGED out_lines
               ELSE /\ out_lines' = Append(out_lines, line)
                    /\ wpc' = "timecheck"
                    /\ UNCHANGED reqs
       ELSE /\ ~procs[proc].alive       \* line == "": EOF
            /\ Restart(EofResult, reqs[cur].pid)
            /\ UNCHANGED out_lines
    /\ UNCHANGED <<pvars, toolPresent, stopping, next_id, q, cur, expired, cpc, crid,
                   cret, ncalls, spc, available_checked, available_flag>>

\* finally: req.done.set(); self._q.task_done().  The locals of the finished
\* iteration are dead from here on and are reset.
WorkerFinally ==
    /\ wpc \in {"finally", "finally_raise"}
    /\ reqs' = [reqs EXCEPT ![cur].done = TRUE]
    /\ wpc' = IF wpc = "finally" THEN "loop" ELSE "dead"
    /\ cur' = None
    /\ out_lines' = <<>>
    /\ expired' = FALSE
    /\ UNCHANGED <<pvars, toolPresent, stopping, proc, next_id, q, procs, cpc, crid,
                   cret, ncalls, spc, available_checked, available_flag>>

Worker ==
    \/ WorkerLoop \/ WorkerGet \/ WorkerCheck \/ WorkerWrite
    \/ WorkerTimeCheck \/ WorkerReadline \/ WorkerFinally

\* the request's timeout elapses while the worker is in its read loop
Tick ==
    /\ wpc \in {"timecheck", "readline"}
    /\ ~expired
    /\ expired' = TRUE
    /\ reqs' = [reqs EXCEPT ![cur].late = ~MarkerArrived(cur)]
    /\ UNCHANGED <<pvars, toolPresent, stopping, proc, next_id, q, procs, wpc,
                   cur, out_lines, cpc, crid, cret, ncalls, spc,
                   available_checked, available_flag>>


\* ------------------------------------------------------- caller threads
\* A caller starts an invocation: ExifToolDaemon.call directly, or the
\* module function exiftool(), which asks available() first.
CallStart(c) ==
    /\ cpc[c] = "idle"
    /\ ncalls < MaxCalls
    /\ ncalls' = ncalls + 1
    /\ \E via \in {"alloc", "avail"} : cpc' = [cpc EXCEPT ![c] = via]
    /\ cret' = [cret EXCEPT ![c] = NotReturned]
    /\ crid' = [crid EXCEPT ![c] = None]
    /\ UNCHANGED <<pvars, toolPresent, stopping, proc, next_id, q, reqs, procs, wpc,
                   cur, out_lines, expired, spc, available_checked,
                   available_flag>>

\* available(): if not _available_checked: _available_checked = True
AvailCheck(c) ==
    /\ cpc[c] = "avail"
    /\ IF ~available_checked
       THEN /\ available_checked' = TRUE
            /\ cpc' = [cpc EXCEPT ![c] = "availset"]
       ELSE /\ cpc' = [cpc EXCEPT ![c] = "availret"]
            /\ UNCHANGED available_checked
    /\ UNCHANGED <<pvars, toolPresent, stopping, proc, next_id, q, reqs, procs, wpc,
                   cur, out_lines, expired, crid, cret, ncalls, spc,
                   available_flag>>

\* available(): path = which("exiftool"); _available = bool(path)
AvailSet(c) ==
    /\ cpc[c] = "availset"
    /\ available_flag' = toolPresent
    /\ cpc' = [cpc EXCEPT ![c] = "availret"]
    /\ UNCHANGED <<pvars, toolPresent, stopping, proc, next_id, q, reqs, procs, wpc,
                   cur, out_lines, expired, crid, cret, ncalls, spc,
                   available_checked>>

\* available(): return _available; exiftool(): if not available(): return 127
AvailRet(c) ==
    /\ cpc[c] = "availret"
    /\ IF available_flag
       THEN /\ cpc' = [cpc EXCEPT ![c] = "alloc"]
            /\ UNCHANGED cret
       ELSE /\ cpc' = [cpc EXCEPT ![c] = "idle"]
            /\ cret' = [cret EXCEPT ![c] = NotFoundResult]
    /\ UNCHANGED <<pvars, toolPresent, stopping, proc, next_id, q, reqs, procs, wpc,
                   cur, out_lines, expired, crid, ncalls, spc,
                   available_checked, available_flag>>

\* call(): with self._lock: rid = self._next_id; self._next_id += 1
\*         req = _Request(args=list(args), timeout=timeout, req_id=rid)
CallAlloc(c) ==
    /\ cpc[c] = "alloc"
    /\ next_id <= MaxCalls
    /\ crid' = [crid EXCEPT ![c] = next_id]
    /\ next_id' = next_id + 1
    /\ \E a \in ArgSet : reqs' = [reqs EXCEPT ![next_id] = NewRequest(a)]
    /\ cpc' = [cpc EXCEPT ![c] = "put"]
    /\ UNCHANGED <<pvars, toolPresent, stopping, proc, q, procs, wpc, cur, out_lines,
                   expired, cret, ncalls, spc, available_checked,
                   available_flag>>

\* call(): self._q.put(req, block=True)
CallPut(c) ==
    /\ cpc[c] = "put"
    /\ q' = Append(q, crid[c])
    /\ reqs' = [reqs EXCEPT ![crid[c]].seq =
                   Cardinality({r \in 1..MaxCalls : reqs[r].seq # 0}) + 1]
    /\ cpc' = [cpc EXCEPT ![c] = "wait"]
    /\ UNCHANGED <<pvars, toolPresent, stopping, proc, next_id, procs, wpc, cur,
                   out_lines, expired, crid, cret, ncalls, spc,
                   available_checked, available_flag>>

\* call(): req.done.wait(); return req.result if req.result else (1, "", "no-result")
CallReturn(c) ==
    /\ cpc[c] = "wait"
    /\ reqs[crid[c]].done
    /\ cret' = [cret EXCEPT ![c] = IF reqs[crid[c]].result # NoneResult
                                   THEN reqs[crid[c]].result
                                   ELSE NoResultResult]
    /\ cpc' = [cpc EXCEPT ![c] = "idle"]
    /\ UNCHANGED <<pvars, toolPresent, stopping, proc, next_id, q, reqs, procs, wpc,
                   cur, out_lines, expired, crid, ncalls, spc,
                   available_checked, available_flag>>

Caller(c) ==
    \/ CallStart(c) \/ AvailCheck(c) \/ AvailSet(c) \/ AvailRet(c)
    \/ CallAlloc(c) \/ CallPut(c) \/ CallReturn(c)

\* ------------------------------------------------- the thread in stop()
\* stop(): self._stopping = True
StopFlag ==
    /\ spc = "idle"
    /\ stopping' = TRUE
    /\ spc' = "killcheck"
    /\ UNCHANGED <<pvars, toolPresent, proc, next_id, q, reqs, procs, wpc, cur,
                   out_lines, expired, cpc, crid, cret, ncalls,
                   available_checked, available_flag>>

\* stop() -> _kill(): if not self._proc: return
StopKillCheck ==
    /\ spc = "killcheck"
    /\ spc' = IF proc = None THEN "done" ELSE "kill"
    /\ UNCHANGED <<pvars, toolPresent, stopping, proc, next_id, q, reqs, procs, wpc,
                   cur, out_lines, expired, cpc, crid, cret, ncalls,
                   available_checked, available_flag>>

\* stop() -> _kill(): self._proc.stdin.write(...); self._proc.kill(); an
\* exception (self._proc cleared meanwhile) is swallowed.  Lines already in
\* the pipe stay readable.
StopKillProc ==
    /\ spc = "kill"
    /\ procs' = IF proc = None THEN procs
                ELSE [procs EXCEPT ![proc].alive = FALSE,
                                   ![proc].inbox = <<>>,
                                   ![proc].nemit = 0]
    /\ spc' = "clear"
    /\ UNCHANGED <<pvars, toolPresent, stopping, proc, next_id, q, reqs, wpc, cur,
                   out_lines, expired, cpc, crid, cret, ncalls,
                   available_checked, available_flag>>

\* stop() -> _kill(): finally: self._proc = None
StopKillClear ==
    /\ spc = "clear"
    /\ proc' = None
    /\ procs' = IF proc # None /\ ~procs[proc].alive
                THEN [procs EXCEPT ![proc] = DeadProc] ELSE procs
    /\ spc' = "done"
    /\ UNCHANGED <<pvars, toolPresent, stopping, next_id, q, reqs, wpc, cur,
                   out_lines, expired, cpc, crid, cret, ncalls,
                   available_checked, available_flag>>

Stop == StopFlag \/ StopKillCheck \/ StopKillProc \/ StopKillClear

\* ------------------------------------------- the exiftool subprocess
\* The process answers the request at the head of its input: output lines,
\* then the -echo3 marker, then the "{ready<id>}" line of -execute<id>.
ProcEmitLine(p) ==
    /\ procs[p].alive
    /\ procs[p].inbox # <<>>
    /\ procs[p].nemit < MaxLines
    /\ \E k \in LineKinds :
         procs' = [procs EXCEPT ![p].pipe = Append(@, Line(Head(procs[p].inbox), k)),
                                ![p].nemit = @ + 1]
    /\ UNCHANGED <<pvars, toolPresent, stopping, proc, next_id, q, reqs, wpc, cur,
                   out_lines, expired, cpc, crid, cret, ncalls, spc,
                   available_checked, available_flag>>

ProcEmitMarker(p) ==
    /\ procs[p].alive
    /\ procs[p].inbox # <<>>
    /\ LET r == Head(procs[p].inbox) IN
         procs' = [procs EXCEPT ![p].pipe = @ \o <<ready_token(r), Line(r, "ready")>>,
                                ![p].inbox = Tail(@),
                                ![p].nemit = 0]
    /\ UNCHANGED <<pvars, toolPresent, stopping, proc, next_id, q, reqs, wpc, cur,
                   out_lines, expired, cpc, crid, cret, ncalls, spc,
                   available_checked, available_flag>>

\* the process exits or crashes on its own
ProcExit(p) ==
    /\ procs[p].alive
    /\ procs' = [procs EXCEPT ![p].alive = FALSE, ![p].inbox = <<>>, ![p].nemit = 0]
    /\ UNCHANGED <<pvars, toolPresent, stopping, proc, next_id, q, reqs, wpc, cur,
                   out_lines, expired, cpc, crid, cret, ncalls, spc,
                   available_checked, available_flag>>

Subprocess == \E p \in Pids : ProcEmitLine(p) \/ ProcEmitMarker(p) \/ ProcExit(p)

DaemonNext ==
    \/ Worker
    \/ Tick
    \/ \E c \in Callers : Caller(c)
    \/ Stop
    \/ Subprocess

\* a Planner that has been constructed and not run
\* no earlier run
NoRun == [run |-> 0, bins |-> {}, dest |-> {}]

\* nothing hashed, written or copied yet
StagesNotRun ==
    /\ first_run = NoRun
    /\ hash_done = {}
    /\ manifest = <<>>
    /\ manifest_writes = 0
    /\ copied = {}

\* a run without --commit, --dry-run, --pdf-repair and --pdf-ocr
PlanOnly ==
    /\ commit = FALSE
    /\ dry_run = TRUE
    /\ pdf_repair = "off"
    /\ pdf_ocr = "off"

PlannerIdle ==
    /\ records = <<>>
    /\ max_per_bin = 1
    /\ dest_files = {}
    /\ phase = "discovering"
    /\ groups_done = 0
    /\ assign_log = <<>>
    /\ source_tree = {}
    /\ workers = 1
    /\ fail_open = FALSE
    /\ files = <<>>
    /\ processed = {}
    /\ failures = <<>>
    /\ bins_plan = <<>>
    /\ error = ""
    /\ StagesNotRun
    /\ PlanOnly

\* the daemon in use, next to a planner that is not run
DaemonRunInit == DaemonInit /\ PlannerIdle

SpecDaemon == DaemonRunInit /\ [][DaemonNext]_vars


\* The scheduler runs every thread that can take a step, and time passes; the
\* subprocess and the thread that may call stop() owe nothing.
SpecDaemonFair ==
    /\ DaemonRunInit
    /\ [][DaemonNext]_vars
    /\ WF_vars(Worker)
    /\ WF_vars(Tick)
    /\ \A c \in Callers : WF_vars(Caller(c))

\* =========================================================== the claims
Rids == 1..MaxCalls

FailureResults == {TimeoutResult, EofResult, EpipeResult}

IsSuccess(res) == res.rc \in {0, 1} /\ res.err = ""

\* C1: the output returned to a caller holds only lines the subprocess
\* emitted for that caller's own request.
C1_NoCrossTalk ==
    \A c \in Callers :
        (cret[c] # NotReturned /\ crid[c] # None) =>
            \A i \in 1..Len(cret[c].out) : cret[c].out[i].req = crid[c]

\* C2: once the timeout of the request being read has elapsed, the request
\* is eventually completed (its caller is released).
C2_TimeoutLiveness ==
    \A r \in Rids :
        (cur = r /\ wpc \in {"timecheck", "readline"} /\ expired
            /\ spc = "idle" /\ Len(procs) < MaxSpawns)
        ~> reqs[r].done

\* C3: at most one request is in flight at the subprocess: of the requests
\* written to a subprocess at most one is not completed, it is the worker's
\* current one, no subprocess has more than one unanswered request on its
\* input, and the worker writes only to a subprocess with none.
InFlight == {r \in Rids : reqs[r].pid # None /\ ~reqs[r].done}

C3_TotalOrder ==
    /\ Cardinality(InFlight) <= 1
    /\ InFlight \subseteq {cur}
    /\ \A p \in Pids : Len(procs[p].inbox) <= 1
    /\ wpc = "write" => (proc # None => procs[proc].inbox = <<>>)

C3_Witness ==
    \E r1, r2 \in Rids :
        /\ r1 # r2
        /\ reqs[r1].done /\ reqs[r1].pid # None
        /\ r2 \in InFlight
        /\ procs[reqs[r2].pid].inbox = <<r2>>
        /\ \A c \in Callers : cpc[c] = "idle" \/ crid[c] = r2

\* C4: no request failure ends the worker thread.
C4_WorkerSurvives == wpc # "dead"

\* C5: a subprocess instance on which a request ended in timeout, EOF or
\* pipe error is no longer the handle and has been replaced by a later
\* instance by the time the request's completion signal is set; the worker
\* never writes to such an instance, and the request being served is on an
\* instance that is not such a one and whose output holds no line of a
\* failed request.
Faulted ==
    {reqs[r].pid : r \in {x \in Rids : reqs[x].done /\ reqs[x].pid # None
                                        /\ reqs[x].result \in FailureResults}}

FailedRids ==
    {r \in Rids : reqs[r].done /\ reqs[r].result \in FailureResults}

C6_NotFound ==
    ~toolPresent => \A c \in Callers : cret[c] \in {NotReturned, NotFoundResult}

\* C7: a completed request whose marker had not arrived when its timeout
\* elapsed has the timeout triple (124, "", "timeout") as its result.
C7_StatusPerFailure ==
    \A r \in Rids :
        (reqs[r].done /\ reqs[r].late) => reqs[r].result = TimeoutResult

\* C8: once stop() has returned and the worker has exited, no subprocess is
\* running.
C8_Teardown ==
    (spc = "done" /\ wpc = "exited") => \A p \in Pids : ~procs[p].alive

\* C9: a step of a caller thread or of the thread in stop() changes neither
\* the process handle nor a subprocess.
C9_SingleOwner ==
    [][ (spc' # spc \/ cpc' # cpc) => (proc' = proc /\ procs' = procs) ]_vars


\* ====================================================================
\* The bin planner and destination assigner (core.py, utils.py)
\* ====================================================================

\* ---------------------------------------------------- strings and order
\* A label is a string, held as its sequence of character codes, so that
\* sorted() by label is the order of Python's string comparison.
RECURSIVE Digits(_)
Digits(n) == IF n < 10 THEN <<48 + n>> ELSE Digits(n \div 10) \o <<48 + (n % 10)>>

\* f"{n:0wd}"
Pad(n, w) ==
    LET d == Digits(n)
    IN  IF Len(d) >= w THEN d ELSE [i \in 1..(w - Len(d)) |-> 48] \o d

Dash       == <<45>>
Underscore == <<95>>
UndatedPrefix == <<117, 110, 100, 97, 116, 101, 100, 45>>     \* "undated-"

\* a < b for two strings, or for two tuples of numbers of any lengths
LexLess(a, b) ==
    \E k \in 1..(Len(a) + 1) :
        /\ \A j \in 1..(k - 1) : j <= Len(b) /\ a[j] = b[j]
        /\ k <= Len(b)
        /\ (k <= Len(a) => a[k] < b[k])

\* a sort that leaves the list as it is
NoSort(s, keys) == s

\* sorted(s, key=...): the stable sort of the sequence s, where keys[i] is
\* the key of s[i] (a string or a tuple of numbers)
StableSort(s, keys) ==
    LET n == Len(s)
        Prec(j, i) == LexLess(keys[j], keys[i])
                      \/ (~LexLess(keys[i], keys[j]) /\ j < i)
        rank(i) == Cardinality({j \in 1..n : Prec(j, i)}) + 1
    IN  [k \in 1..n |-> s[CHOOSE i \in 1..n : rank(i) = k]]

\* the keys of a list of record indexes: each record's source path
\* <<dir, stem, ext>> (ext 0: no suffix), whose order as a tuple is the order
\* of the path strings
PathKeys(recs, idxs) == [j \in 1..Len(idxs) |-> recs[idxs[j]].source_path]

\* sorted(S) for a set of tuples of numbers
SortSet(S) ==
    LET rank(x) == Cardinality({y \in S : LexLess(y, x)}) + 1
    IN  [k \in 1..Cardinality(S) |-> CHOOSE x \in S : rank(x) = k]

Range(s) == {s[i] : i \in 1..Len(s)}

RECURSIVE Concat(_)
Concat(ss) == IF ss = <<>> THEN <<>> ELSE Head(ss) \o Concat(Tail(ss))


\* -------------------------------------------------------------- records
NoDate == <<>>          \* "" in date_local and date_source's companion
NoPath == <<>>          \* "" in dest_path
NoTs   == <<>>          \* plan_bins' ts = None

Colon   == <<58>>
LetterT == <<84>>

\* datetime.isoformat() of the instant <<y, m, d, h, mi>>:
\* "YYYY-MM-DDTHH:MM:00" as character codes
isoformat(ts) ==
    Pad(ts[1], 4) \o Dash \o Pad(ts[2], 2) \o Dash \o Pad(ts[3], 2) \o LetterT
    \o Pad(ts[4], 2) \o Colon \o Pad(ts[5], 2) \o Colon \o Pad(0, 2)

\* int() of a string of digits
RECURSIVE Num(_)
Num(ds) ==
    IF ds = <<>> THEN 0
    ELSE 10 * Num(SubSeq(ds, 1, Len(ds) - 1)) + (ds[Len(ds)] - 48)

\* datetime.fromisoformat of such a string: the instant <<y, m, d, h, mi>>
fromisoformat(str) ==
    << Num(SubSeq(str, 1, 4)), Num(SubSeq(str, 6, 7)), Num(SubSeq(str, 9, 10)),
       Num(SubSeq(str, 12, 13)), Num(SubSeq(str, 15, 16)) >>

\* a split that takes the modification time of every record without a
\* recovered date, flagged or not
ResolvedTsAnyMtime(r) ==
    IF r.date_local # NoDate THEN fromisoformat(r.date_local)
    ELSE fromisoformat(r.mtime_local)

\* the resolved instant of a record (plan_bins' ts)
ResolvedTs(r) ==
    IF r.date_local # NoDate THEN fromisoformat(r.date_local)
    ELSE IF r.undated_flag = 0 THEN fromisoformat(r.mtime_local)
    ELSE NoTs

\* the record after plan_bins' dated/unknown split, which fills date_source
\* and date_local of a record dated by its modification time
AfterSplit(r) ==
    IF r.integrity = "ok" /\ r.date_local = NoDate /\ r.undated_flag = 0
    THEN [r EXCEPT !.date_source = IF r.date_source # "" THEN r.date_source ELSE "mtime",
                   !.date_local = r.mtime_local]
    ELSE r

\* ------------------------------------------------------------- labels
label_year_range(y1, y2) ==
    IF y1 = y2 THEN Digits(y1) ELSE Digits(y1) \o Dash \o Digits(y2)

\* a month label that drops the month
label_month_as_year(y, m1, m2) == Pad(y, 4)

label_month_range(y, m1, m2) ==
    IF m1 = m2 THEN Pad(y, 4) \o Dash \o Pad(m1, 2)
    ELSE Pad(y, 4) \o Dash \o Pad(m1, 2) \o Dash \o Pad(y, 4) \o Dash \o Pad(m2, 2)

label_day_range(y, m, d1, d2) ==
    LET day(d) == Pad(y, 4) \o Dash \o Pad(m, 2) \o Dash \o Pad(d, 2)
    IN  IF d1 = d2 THEN day(d1) ELSE day(d1) \o Dash \o day(d2)

label_minute_range(y, m, d, h1, mi1, h2, mi2) ==
    LET side(h, mi) == Pad(y, 4) \o Dash \o Pad(m, 2) \o Dash \o Pad(d, 2)
                        \o Underscore \o Pad(h, 2) \o Pad(mi, 2)
    IN  IF h1 = h2 /\ mi1 = mi2 THEN side(h1, mi1)
        ELSE side(h1, mi1) \o Dash \o side(h2, mi2)

\* ------------------------------------------------------ _greedy_merge
\* the inner while loop: end advances while the next key still fits
RECURSIVE GreedyEnd(_, _, _, _, _)
GreedyEnd(keys_sorted, counts, cap, end, total) ==
    IF end < Len(keys_sorted) /\ total + counts[keys_sorted[end + 1]] <= cap
    THEN GreedyEnd(keys_sorted, counts, cap, end + 1,
                   total + counts[keys_sorted[end + 1]])
    ELSE end

\* the outer while loop from position start (0-based, spans are half-open).
\* When the key at start does not fit on its own, end = start: the loop
\* appends (start, start) and never advances; diverged reports that.
RECURSIVE GreedyFrom(_, _, _, _)
GreedyFrom(keys_sorted, counts, cap, start) ==
    IF start >= Len(keys_sorted) THEN [spans |-> <<>>, diverged |-> FALSE]
    ELSE LET end == GreedyEnd(keys_sorted, counts, cap, start, 0)
         IN  IF end = start
             THEN [spans |-> << <<start, end>> >>, diverged |-> TRUE]
             ELSE LET rest == GreedyFrom(keys_sorted, counts, cap, end)
                  IN  [spans |-> << <<start, end>> >> \o rest.spans,
                       diverged |-> rest.diverged]

\* a packing that gives every period a span of its own
one_span_each(keys_sorted, counts, cap) ==
    [spans |-> [i \in 1..Len(keys_sorted) |-> <<i - 1, i>>], diverged |-> FALSE]

greedy_merge(keys_sorted, counts, cap) == GreedyFrom(keys_sorted, counts, cap, 0)

\* --------------------------------------------------------- plan_bins
\* keys in sorted order cut into the pieces plan_bins walks through: maximal
\* runs of consecutive non-heavy keys, and the heavy keys between them
RECURSIVE Pieces(_, _, _)
Pieces(keys, heavy, run) ==
    IF keys = <<>>
    THEN IF run = <<>> THEN <<>> ELSE << [heavy |-> FALSE, keys |-> run] >>
    ELSE IF Head(keys) \in heavy
         THEN (IF run = <<>> THEN <<>> ELSE << [heavy |-> FALSE, keys |-> run] >>)
              \o << [heavy |-> TRUE, keys |-> <<Head(keys)>>] >>
              \o Pieces(Tail(keys), heavy, <<>>)
         ELSE Pieces(Tail(keys), heavy, Append(run, Head(keys)))

\* the first n components of an instant: its year, month, day or minute key
KeyOf(ts, n) == SubSeq(ts, 1, n)

\* years[y], months[(y, m)], ...: the dated records with that key, in the
\* order of the sorted dated list.  tss maps a record index to its instant.
Members(tss, dated, key) ==
    SelectSeq(dated, LAMBDA i : KeyOf(tss[i], Len(key)) = key)

\* the keys of length n below the key parent, sorted
KeysBelow(tss, dated, parent, n) ==
    SortSet({KeyOf(tss[i], n) :
               i \in {x \in Range(dated) : KeyOf(tss[x], Len(parent)) = parent}})

\* a period counted as heavy when it is exactly at the cap
HeavyAtCap(tss, dated, keys, cap) ==
    {k \in Range(keys) : Len(Members(tss, dated, k)) >= cap}

HeavyKeys(tss, dated, keys, cap) ==
    {k \in Range(keys) : Len(Members(tss, dated, k)) > cap}

\* the label of a span of keys k1..k2 of one level
SpanLabel(k1, k2) ==
    IF Len(k1) = 1 THEN label_year_range(k1[1], k2[1])
    ELSE IF Len(k1) = 2 THEN label_month_range(k1[1], k1[2], k2[2])
    ELSE IF Len(k1) = 3 THEN label_day_range(k1[1], k1[2], k1[3], k2[3])
    ELSE label_minute_range(k1[1], k1[2], k1[3], k1[4], k1[5], k2[4], k2[5])

\* a run (or segment) of keys packed by _greedy_merge into labelled bins
RunBins(tss, dated, run, cap) ==
    LET counts == [k \in Range(run) |-> Len(Members(tss, dated, k))]
        g == greedy_merge(run, counts, cap)
    IN  [diverged |-> g.diverged,
         bins |-> IF g.diverged THEN <<>>
                  ELSE [n \in 1..Len(g.spans) |->
                          LET s == g.spans[n][1]
                              e == g.spans[n][2]
                          IN  [label |-> SpanLabel(run[s + 1], run[e]),
                               members |-> Concat([j \in 1..(e - s) |->
                                   Members(tss, dated, run[s + j])])]]]

\* parts = [idxs_sorted[x:x+cap] for x in range(0, len(idxs), cap)], labelled
\* f"{label}-{pi:03d}"
MinuteChunks(recs, bin, cap) ==
    IF Len(bin.members) <= cap THEN <<bin>>
    ELSE LET idxs_sorted == StableSort(bin.members, PathKeys(recs, bin.members))
             nparts == (Len(idxs_sorted) + cap - 1) \div cap
         IN  [pi \in 1..nparts |->
                [label |-> bin.label \o Dash \o Pad(pi, 3),
                 members |-> SubSeq(idxs_sorted, (pi - 1) * cap + 1,
                                    IF pi * cap < Len(idxs_sorted)
                                    THEN pi * cap ELSE Len(idxs_sorted))]]

\* the plans of the pieces of one level joined: diverged if any piece is
JoinPlans(plans) ==
    [diverged |-> \E i \in 1..Len(plans) : plans[i].diverged,
     bins |-> Concat([i \in 1..Len(plans) |-> plans[i].bins])]

\* a heavy key refined at the next finer level: a heavy year by months, a
\* heavy month by days, a heavy day by minutes (where every minute key goes
\* to _greedy_merge, heavy or not)
RECURSIVE Refine(_, _, _, _, _)
Refine(recs, tss, dated, key, cap) ==
    LET n == IF Len(key) = 3 THEN 5 ELSE Len(key) + 1
        keys == KeysBelow(tss, dated, key, n)
    IN  IF n = 5
        THEN LET m == RunBins(tss, dated, keys, cap)
             IN  [diverged |-> m.diverged,
                  bins |-> Concat([i \in 1..Len(m.bins) |->
                                     MinuteChunks(recs, m.bins[i], cap)])]
        ELSE LET pieces == Pieces(keys, HeavyKeys(tss, dated, keys, cap), <<>>)
             IN  JoinPlans([i \in 1..Len(pieces) |->
                     IF pieces[i].heavy
                     THEN Refine(recs, tss, dated, pieces[i].keys[1], cap)
                     ELSE RunBins(tss, dated, pieces[i].keys, cap)])

\* Mutant of UndatedBins: the undated records are not cut into parts.
UndatedOneBin(unknown, cap) ==
    IF unknown = <<>> THEN <<>>
    ELSE << [label |-> UndatedPrefix \o Pad(1, 4), members |-> unknown] >>

\* unknown[start:start+cap] for start in range(0, len(unknown), cap),
\* labelled f"undated-{(start//cap)+1:04d}"
UndatedBins(unknown, cap) ==
    LET nparts == (Len(unknown) + cap - 1) \div cap
    IN  [k \in 1..nparts |->
           [label |-> UndatedPrefix \o Pad(k, 4),
            members |-> SubSeq(unknown, (k - 1) * cap + 1,
                               IF k * cap < Len(unknown) THEN k * cap
                               ELSE Len(unknown))]]

\* the dated/unknown split of one cohort (idxs: its record indexes in list
\* order; tss: each record's resolved instant): dated sorted by instant,
\* unknown sorted by source path
DatedOf(tss, idxs) ==
    LET d == SelectSeq(idxs, LAMBDA i : tss[i] # NoTs)
    IN  StableSort(d, [j \in 1..Len(d) |-> tss[d[j]]])

\* an unknown list left in list order
UnknownUnsorted(recs, tss, idxs) == SelectSeq(idxs, LAMBDA i : tss[i] = NoTs)

UnknownOf(recs, tss, idxs) ==
    LET u == SelectSeq(idxs, LAMBDA i : tss[i] = NoTs)
    IN  StableSort(u, PathKeys(recs, u))

\* bins_plan of one cohort
BinsPlan(recs, tss, dated, unknown, cap) ==
    LET year_keys == KeysBelow(tss, dated, <<>>, 1)
        heavy_years == HeavyKeys(tss, dated, year_keys, cap)
        pieces == Pieces(year_keys, heavy_years, <<>>)
        runs == SelectSeq(pieces, LAMBDA pc : ~pc.heavy)
        light == JoinPlans([i \in 1..Len(runs) |->
                              RunBins(tss, dated, runs[i].keys, cap)])
        hy == SortSet(heavy_years)
        refined == JoinPlans([i \in 1..Len(hy) |->
                                Refine(recs, tss, dated, hy[i], cap)])
    IN  [diverged |-> light.diverged \/ refined.diverged,
         bins |-> light.bins \o refined.bins \o UndatedBins(unknown, cap)]

\* ------------------------------------------------ destination assigner
\* _dest_filename with rename = "none": the source's name <<stem, ext>>, with
\* the guessed extension appended when the source has none
dest_filename(r) ==
    LET src == r.source_path
    IN  IF src[3] = 0 /\ r.guessed_ext # 0
        THEN <<src[2], r.guessed_ext>>
        ELSE <<src[2], src[3]>>

\* Path.exists() of bin_dir / name, where n = 0 is the name itself and
\* n >= 1 is "stem (n).ext".  dest_files holds the names found in every bin
\* directory of the destination tree.
Exists(bin_dir, stem, n, ext) == <<stem, n, ext>> \in dest_files

\* utils.ensure_unique_path: the candidate itself when no such file exists,
\* else the first "stem (n)suffix", n = 1, 2, ..., that does not exist
ensure_unique_path(bin_dir, name) ==
    LET free == {n \in 0..Cardinality(dest_files) :
                    ~Exists(bin_dir, name[1], n, name[2])}
        n == CHOOSE k \in free : \A j \in free : k <= j
    IN  bin_dir \o <<name[1], n, name[2]>>

\* an _assign_dest that stores nothing
assign_none(recs, idx, bin_dir) == NoPath

\* the value _assign_dest stores in records[idx]["dest_path"]
assign_dest(recs, idx, bin_dir) ==
    ensure_unique_path(bin_dir, dest_filename(recs[idx]))

\* groups: the (family, subtype) keys of the intact records in the order of
\* their first record, and the record indexes of a key in list order
GroupKey(r) == <<r.family, r.subtype>>

\* Mutant of OkIdxs: the integrity test is dropped.
AllIdxs(recs) == [i \in 1..Len(recs) |-> i]

OkIdxs(recs) == SelectSeq([i \in 1..Len(recs) |-> i],
                          LAMBDA i : recs[i].integrity = "ok")

\* the keys of a list in order of first appearance (dict insertion order)
RECURSIVE Dedup(_, _)
Dedup(ks, seen) ==
    IF ks = <<>> THEN <<>>
    ELSE IF Head(ks) \in seen THEN Dedup(Tail(ks), seen)
         ELSE <<Head(ks)>> \o Dedup(Tail(ks), seen \cup {Head(ks)})

Groups(recs) ==
    LET ok == OkIdxs(recs)
    IN  Dedup([j \in 1..Len(ok) |-> GroupKey(recs[ok[j]])], {})

GroupIdxs(recs, key) ==
    SelectSeq(OkIdxs(recs), LAMBDA i : GroupKey(recs[i]) = key)

\* an assignment loop without the two sorted() calls
AssignPlanOrder(recs, key, plan) ==
    Concat([n \in 1..Len(plan.bins) |->
        [j \in 1..Len(plan.bins[n].members) |->
            [idx |-> plan.bins[n].members[j],
             bin_dir |-> <<key[1], key[2], plan.bins[n].label>>]]])

\* the order in which one cohort's records reach _assign_dest: bins sorted by
\* label, the members of a bin sorted by source path; each entry is the
\* record index with its bin directory
AssignOrder(recs, key, plan) ==
    LET sorted_bins == StableSort(plan.bins,
                          [n \in 1..Len(plan.bins) |-> plan.bins[n].label])
    IN  Concat([n \in 1..Len(sorted_bins) |->
            LET mem == StableSort(sorted_bins[n].members,
                                  PathKeys(recs, sorted_bins[n].members))
            IN  [j \in 1..Len(mem) |->
                    [idx |-> mem[j],
                     bin_dir |-> <<key[1], key[2], sorted_bins[n].label>>]]])

\* ------------------------------------------------------------ Planner.run
\* the instants a file's modification time or recovered date can take: two
\* minutes of one day, another day of the month, another month, another year
OldDates == { <<2020, 1, 1, 10, 0>>, <<2020, 1, 1, 10, 5>>, <<2020, 1, 2, 9, 0>>,
              <<2020, 2, 1, 9, 0>>, <<2021, 3, 1, 9, 0>> }

\* a modification time after undated_cutoff
RecentDate == <<2025, 6, 1, 12, 0>>

\* the files of the source tree as <<dir, stem, ext>>: one name in two
\* directories, and the same stem without an extension
SourcePaths == { <<1, 1, 1>>, <<2, 1, 1>>, <<1, 1, 0>> }

\* what process_file can find out about a file: subtype (pdf_kind),
\* integrity, modification time and, for a file modified after the cutoff,
\* the recovered date (NoTs: none)
FileKinds ==
    [subtype : {"Digital"}, integrity : {"ok"}, mtime : OldDates, recovered : {NoTs}]
    \cup [subtype : {"Digital", "Scans"}, integrity : {"ok"}, mtime : {RecentDate},
          recovered : {NoTs, <<2020, 1, 1, 10, 0>>}]
    \cup [subtype : {"Digital"}, integrity : {"pdfinfo-fail"},
          mtime : {<<2020, 1, 1, 10, 0>>}, recovered : {NoTs}]

\* a file's bytes as <<head block, middle, tail block>>; all files here have
\* the same size
FileSize == <<4>>

Contents == { <<1, 1, 1>>, <<1, 2, 1>>, <<2, 1, 1>> }

NoHash == <<>>          \* "" in fullhash

\* sig = f"{size_bytes}:{fast_hash(head)}:{fast_hash(tail)}": the size and the
\* hashes of the head and tail blocks; equal blocks give equal hashes
sig_of(content) == FileSize \o <<content[1]>> \o <<content[3]>>

\* the full hash of a file: a digest of all its bytes, different for
\* different bytes
full_hash(content) == <<content[1], content[2], content[3]>>

\* the record process_file builds for a PDF
process_file(path, k, guessed, content) ==
    LET undated_flag == IF k.mtime = RecentDate THEN 1 ELSE 0
    IN  [source_path |-> path,
         family |-> "PDFs",
         subtype |-> k.subtype,
         mtime_local |-> isoformat(k.mtime),
         integrity |-> k.integrity,
         undated_flag |-> undated_flag,
         date_source |-> IF k.recovered # NoTs THEN "pdfinfo" ELSE "",
         date_local |-> IF k.recovered # NoTs THEN isoformat(k.recovered) ELSE NoDate,
         sig |-> sig_of(content),
         fullhash |-> NoHash,
         duplicate_of |-> NoPath,
         dest_path |-> NoPath,
         pdf_kind |-> k.subtype,
         pdf_ocr_applied |-> 0,
         guessed_ext |-> guessed]

\* the minimal record run's worker emits under BC_FAIL_OPEN when process_file
\* raised: it has no sig, fullhash, dest_path or type_label key
\* (file_mtime and stat succeed on the files modelled here)
fallback_record(f) ==
    [source_path |-> f.path,
     family |-> "Other",
     subtype |-> "Unknown",
     mtime_local |-> f.kind.mtime,
     duplicate_of |-> NoPath,
     integrity |-> "unknown",
     notes |-> "fail-open"]

\* the descriptions of the files a source tree can hold: raises says that
\* process_file raises on the file, hash_raises that the file cannot be read
\* through when its full hash is computed
TreeOf(paths, kinds, contents, outcomes) ==
    { f \in [path : paths, kind : kinds, guessed : {0, 1}, content : contents,
             raises : BOOLEAN, hash_raises : BOOLEAN] :
        /\ (f.path[3] # 0 => f.guessed = f.path[3])
        /\ <<f.raises, f.hash_raises>> \in outcomes }

\* the file at a source path
FileOf(path) == CHOOSE f \in Range(files) : f.path = path

\* planning in depth: every kind of file, each with bytes of its own, read
\* without failure by one worker
PlanTree ==
    { f \in TreeOf(SourcePaths, FileKinds,
                   {<<p[1], 1, p[3]>> : p \in SourcePaths}, {<<FALSE, FALSE>>}) :
        f.content = <<f.path[1], 1, f.path[3]>> }

PlanInit ==
    /\ records = <<>>
    /\ max_per_bin \in 1..MaxCap
    /\ dest_files \in { {}, {<<1, 0, 1>>} }
    /\ phase = "discovering"
    /\ groups_done = 0
    /\ assign_log = <<>>
    /\ source_tree = PlanTree
    /\ workers = 1
    /\ fail_open = FALSE
    /\ files = <<>>
    /\ processed = {}
    /\ failures = <<>>
    /\ bins_plan = <<>>
    /\ error = ""
    /\ StagesNotRun
    /\ PlanOnly

\* discover_files: os.walk finds one more file
Discover ==
    /\ phase = "discovering"
    /\ Len(files) < MaxFiles
    /\ \E f \in source_tree :
          /\ \A i \in 1..Len(files) : files[i].path # f.path
          /\ files' = Append(files, f)
    /\ UNCHANGED <<dvars, records, phase, groups_done, assign_log, processed,
                   failures, bins_plan, error, cfgvars, cvars>>

\* run's worker(p) returns for one discovered file: process_file and
\* records.append, or the failure and, under BC_FAIL_OPEN, the minimal
\* record.  The pool runs at most `workers` files at a time, taken in list
\* order, and any of them can be the next to finish.
ProcessFile ==
    /\ phase \in {"discovering", "processing"}
    /\ \E i \in 1..Len(files) :
          /\ i \notin processed
          /\ Cardinality({j \in 1..(i - 1) : j \notin processed}) < workers
          /\ processed' = processed \cup {i}
          /\ IF ~files[i].raises
             THEN /\ records' = Append(records,
                        process_file(files[i].path, files[i].kind,
                                     files[i].guessed, files[i].content))
                  /\ failures' = failures
             ELSE /\ failures' = Append(failures, files[i].path)
                  /\ records' = IF fail_open
                                THEN Append(records, fallback_record(files[i]))
                                ELSE records
    /\ phase' = "processing"
    /\ UNCHANGED <<dvars, groups_done, assign_log, files, bins_plan, error, cfgvars, cvars>>

\* ------------------------------------------ stage_full_hash_for_collisions
\* buckets[sig] of a record, and multi: the records in a bucket of two or more
SigBucket(recs, i) == {j \in 1..Len(recs) : recs[j].sig = recs[i].sig}

\* a stage that takes every bucket, also those of one record
InAnyBucket(recs, i) == Cardinality(SigBucket(recs, i)) >= 1

InMulti(recs, i) == Cardinality(SigBucket(recs, i)) > 1

\* do_hash: the record with its full hash filled in
do_hash(recs, idx) ==
    [recs[idx] EXCEPT !.fullhash = full_hash(FileOf(recs[idx].source_path).content)]

\* a grouping that trusts the signature and skips the full hash
by_sig(recs, i) == SigBucket(recs, i)

\* by_full[fh] of a record of a multi bucket whose full hash is set
by_full(recs, i) ==
    {j \in SigBucket(recs, i) : recs[j].fullhash # NoHash
                                 /\ recs[j].fullhash = recs[i].fullhash}

\* a keeper taken from the other end of the group
keeper_last(group) == CHOOSE k \in group : \A j \in group : k >= j

\* keeper = min(group)
keeper(group) == CHOOSE k \in group : \A j \in group : k <= j

\* a marking loop without the test j != keeper
marked_all(group) == group

\* the members of a group that are marked: all but the keeper
marked(group) == group \ {keeper(group)}

\* the records after the marking loops
mark_duplicates(recs) ==
    [i \in 1..Len(recs) |->
        IF InMulti(recs, i) /\ recs[i].fullhash # NoHash
              /\ i \in marked(by_full(recs, i))
        THEN [recs[i] EXCEPT !.duplicate_of =
                 recs[keeper(by_full(recs, i))].source_path]
        ELSE recs[i]]

\* stage_full_hash_for_collisions.  A record without a sig key raises
\* KeyError in the first loop; a file that cannot be read raises in do_hash,
\* and list(ex.map(...)) raises it again once the other hashes are stored.
\* Either exception leaves run.
StageFullHash ==
    /\ phase \in {"discovering", "processing"}
    /\ processed = 1..Len(files)
    /\ IF \E i \in 1..Len(records) : "sig" \notin DOMAIN records[i]
       THEN /\ phase' = "crashed"
            /\ error' = "KeyError"
            /\ records' = records
       ELSE \E hashed \in {[i \in 1..Len(records) |->
                              IF InMulti(records, i)
                                 /\ ~FileOf(records[i].source_path).hash_raises
                              THEN do_hash(records, i) ELSE records[i]]} :
            IF \E i \in 1..Len(records) :
                  InMulti(records, i) /\ FileOf(records[i].source_path).hash_raises
            THEN /\ phase' = "crashed"
                 /\ error' = "OSError"
                 /\ records' = hashed
            ELSE /\ phase' = "staged"
                 /\ error' = error
                 /\ records' = mark_duplicates(hashed)
    /\ UNCHANGED <<dvars, groups_done, assign_log, files, processed, failures,
                   bins_plan, cfgvars, cvars>>

\* run, once the dedup stage has returned: plan_bins is entered; with no
\* intact record its groups loop has nothing to do
StartPlan ==
    /\ phase = "staged"
    /\ phase' = IF Groups(records) = <<>> THEN "planned" ELSE "planning"
    /\ UNCHANGED <<dvars, records, groups_done, assign_log, files, processed,
                   failures, bins_plan, error, cfgvars, cvars>>

\* one iteration of plan_bins' loop over groups: the dated/unknown split,
\* the bins of the cohort, and _assign_dest for each of its records.  When a
\* _greedy_merge call does not return, neither does plan_bins ("hung").
PlanCohort ==
    /\ phase = "planning"
    /\ \E gs \in {Groups(records)} :
       \E key \in {gs[groups_done + 1]} :
       \E tss \in {[i \in 1..Len(records) |-> ResolvedTs(records[i])]} :
       \E idxs \in {GroupIdxs(records, key)} :
       \E dated \in {DatedOf(tss, idxs)} :
       \E unknown \in {UnknownOf(records, tss, idxs)} :
       \E split \in {[i \in 1..Len(records) |->
                        IF i \in Range(idxs) THEN AfterSplit(records[i])
                        ELSE records[i]]} :
       \E plan \in {BinsPlan(records, tss, dated, unknown, max_per_bin)} :
          IF plan.diverged
          THEN /\ records' = split
               /\ phase' = "hung"
               /\ UNCHANGED <<groups_done, assign_log, bins_plan>>
          ELSE \E order \in {AssignOrder(records, key, plan)} :
               /\ records' = [i \in 1..Len(records) |->
                     IF \E j \in 1..Len(order) : order[j].idx = i
                     THEN [split[i] EXCEPT !.dest_path =
                             assign_dest(records, i,
                                 order[CHOOSE j \in 1..Len(order) :
                                           order[j].idx = i].bin_dir)]
                     ELSE split[i]]
               /\ assign_log' = assign_log \o [j \in 1..Len(order) |-> order[j].idx]
               /\ bins_plan' = bins_plan \o
                     [n \in 1..Len(plan.bins) |->
                        [key |-> key, label |-> plan.bins[n].label,
                         members |-> plan.bins[n].members]]
               /\ groups_done' = groups_done + 1
               /\ phase' = IF groups_done + 1 = Len(gs) THEN "planned" ELSE "planning"
    /\ UNCHANGED <<dvars, files, processed, failures, error, cfgvars, cvars>>

PlanNext == Discover \/ ProcessFile \/ StageFullHash \/ StartPlan \/ PlanCohort

\* a daemon that has been constructed and not used
DaemonIdle == DaemonInit /\ toolPresent = TRUE

\* a run of the planner, next to a daemon nobody calls
PlanRunInit == PlanInit /\ DaemonIdle

SpecPlan == PlanRunInit /\ [][PlanNext]_vars

\* ------------------------------------------------- runs with duplicates
\* the files of a run that meets equal and colliding contents, files that
\* process_file raises on and files that cannot be hashed: intact digital
\* PDFs, those of directory 1 modified in 2020 and those of directory 2 in 2021
RunKinds ==
    [subtype : {"Digital"}, integrity : {"ok"},
     mtime : {<<2020, 1, 1, 10, 0>>, <<2021, 3, 1, 9, 0>>}, recovered : {NoTs}]

RunTree ==
    { f \in TreeOf(SourcePaths, RunKinds, Contents,
                   {<<FALSE, FALSE>>, <<TRUE, FALSE>>, <<FALSE, TRUE>>}) :
        /\ f.kind.mtime[1] = 2019 + f.path[1]
        /\ f.guessed = 1 }

\* run with one or two workers, with and without BC_FAIL_OPEN, into an empty
\* destination, next to a daemon nobody calls
RunInit ==
    /\ records = <<>>
    /\ max_per_bin = MaxCap
    /\ dest_files = {}
    /\ phase = "discovering"
    /\ groups_done = 0
    /\ assign_log = <<>>
    /\ source_tree = RunTree
    /\ workers \in 1..MaxWorkers
    /\ fail_open \in BOOLEAN
    /\ files = <<>>
    /\ processed = {}
    /\ failures = <<>>
    /\ bins_plan = <<>>
    /\ error = ""
    /\ StagesNotRun
    /\ PlanOnly
    /\ DaemonIdle

SpecRun == RunInit /\ [][PlanNext]_vars

\* ------------------------------------------ the run, stage by stage
\* the hash tasks of the dedup stage: the records of the buckets of two or
\* more (itertools.chain.from_iterable(multi))
HashTasks(recs) == {i \in 1..Len(recs) : InMulti(recs, i)}

\* the place of a task in the chain: buckets in the order of their first
\* record, the records of a bucket in list order
ChainKey(recs, i) ==
    <<CHOOSE k \in SigBucket(recs, i) : \A j \in SigBucket(recs, i) : k <= j, i>>

\* the tasks submitted before task i
Earlier(recs, i) ==
    {j \in HashTasks(recs) : LexLess(ChainKey(recs, j), ChainKey(recs, i))}

\* max_workers of the hash pool
HashWorkers == IF workers \div 2 > 1 THEN workers \div 2 ELSE 1

\* list(ex.map(worker, files)) has returned and the pool is shut down
ProcessingJoined == processed = 1..Len(files)

\* a hash pool that is left as soon as one task has returned
HashStarted == hash_done # {}

\* list(ex.map(do_hash, ...)) has returned and the pool is shut down
HashJoined == hash_done = HashTasks(records)

\* the first loop of stage_full_hash_for_collisions: the buckets.  A record
\* without a sig key raises KeyError; with no bucket of two or more the stage
\* returns; else the hash pool is started.
StageBuckets ==
    /\ phase \in {"discovering", "processing"}
    /\ ProcessingJoined
    /\ IF \E i \in 1..Len(records) : "sig" \notin DOMAIN records[i]
       THEN phase' = "crashed" /\ error' = "KeyError"
       ELSE /\ phase' = IF HashTasks(records) = {} THEN "staged" ELSE "hashing"
            /\ error' = error
    /\ UNCHANGED <<dvars, records, groups_done, assign_log, files, processed,
                   failures, bins_plan, cfgvars, cvars>>

\* one do_hash returns: the next tasks of the chain run on the pool's
\* threads and any of them can be the next to finish.  On a file that cannot
\* be read the exception is kept in the task's future.
HashOne ==
    /\ phase = "hashing"
    /\ \E i \in HashTasks(records) \ hash_done :
          /\ Cardinality(Earlier(records, i) \ hash_done) < HashWorkers
          /\ hash_done' = hash_done \cup {i}
          /\ records' = IF FileOf(records[i].source_path).hash_raises
                        THEN records
                        ELSE [records EXCEPT ![i] = do_hash(records, i)]
    /\ UNCHANGED <<dvars, phase, groups_done, assign_log, files, processed,
                   failures, bins_plan, error, cfgvars,
                   manifest, manifest_writes, copied, first_run>>

\* the hash pool is left: list(...) raises the exception of a failed task
\* once the tasks before it are done, and leaves run; else, when every task
\* has returned, the marking loops run.
StageMark ==
    /\ phase = "hashing"
    /\ IF \E i \in hash_done :
             /\ FileOf(records[i].source_path).hash_raises
             /\ Earlier(records, i) \subseteq hash_done
       THEN phase' = "crashed" /\ error' = "OSError" /\ records' = records
       ELSE /\ HashJoined
            /\ phase' = "staged"
            /\ error' = error
            /\ records' = mark_duplicates(records)
    /\ UNCHANGED <<dvars, groups_done, assign_log, files, processed, failures,
                   bins_plan, cfgvars, cvars>>

\* a row of manifest.csv, of the fields that change during a run
Row(r) ==
    [source_path |-> r.source_path, dest_path |-> r.dest_path,
     integrity |-> r.integrity, fullhash |-> r.fullhash,
     duplicate_of |-> r.duplicate_of, pdf_ocr_applied |-> r.pdf_ocr_applied]

\* a manifest writer that writes no file for an empty record collection
WriteManifestUnlessEmpty ==
    /\ phase = "planned"
    /\ manifest' = [i \in 1..Len(records) |-> Row(records[i])]
    /\ manifest_writes' = IF records = <<>> THEN manifest_writes
                          ELSE manifest_writes + 1
    /\ phase' = "manifested"
    /\ UNCHANGED <<dvars, records, groups_done, assign_log, files, processed,
                   failures, bins_plan, error, cfgvars, hash_done, copied, first_run>>

\* run after plan_bins: the plan summary and write_manifest_csv
WriteManifest ==
    /\ phase = "planned"
    /\ manifest' = [i \in 1..Len(records) |-> Row(records[i])]
    /\ manifest_writes' = manifest_writes + 1
    /\ phase' = "manifested"
    /\ UNCHANGED <<dvars, records, groups_done, assign_log, files, processed,
                   failures, bins_plan, error, cfgvars, hash_done, copied, first_run>>

\* dest / "damaged" / family / subtype / name
DamagedPath(r) ==
    <<"damaged", r.family, r.subtype, r.source_path[2], 0, r.source_path[3]>>

\* dest / "PDFs" / "_repaired" / name
RepairedPath(r) ==
    <<"PDFs", "_repaired", <<>>, r.source_path[2], 0, r.source_path[3]>>

\* the records the PDF repair loop tries
RepairCandidates(recs) ==
    IF pdf_repair = "on"
    THEN {i \in 1..Len(recs) : recs[i].family = "PDFs" /\ recs[i].integrity # "ok"}
    ELSE {}

\* the records after the repair loop, when qpdf repaired those of fixed
Repaired(recs, fixed) ==
    [i \in 1..Len(recs) |->
        IF i \in fixed
        THEN [recs[i] EXCEPT !.integrity = "ok",
                 !.dest_path = IF recs[i].dest_path # NoPath THEN recs[i].dest_path
                               ELSE RepairedPath(recs[i])]
        ELSE recs[i]]

\* is_candidate / ocr_candidates: the PDFs the OCR policy selects
OcrSelected(r) ==
    /\ pdf_ocr # "off"
    /\ r.family = "PDFs"
    /\ (pdf_ocr = "all" \/ (pdf_ocr = "scans" /\ r.pdf_kind = "Scans"))

\* _copy_or_move in copy mode: the files of the destination after copying
\* src to dest, which is skipped when dest exists
copy_or_move(made, src, dest) ==
    IF \E c \in made : c[2] = dest THEN made ELSE made \cup {<<src, dest>>}

\* the initial copy loop over the records from index i on
RECURSIVE InitialCopy(_, _, _)
InitialCopy(recs, i, made) ==
    IF i > Len(recs) THEN made
    ELSE LET r == recs[i]
         IN  IF r.duplicate_of # NoPath THEN InitialCopy(recs, i + 1, made)
             ELSE IF r.integrity # "ok"
             THEN InitialCopy(recs, i + 1,
                              copy_or_move(made, r.source_path, DamagedPath(r)))
             ELSE IF r.dest_path = NoPath \/ OcrSelected(r)
             THEN InitialCopy(recs, i + 1, made)
             ELSE InitialCopy(recs, i + 1,
                              copy_or_move(made, r.source_path, r.dest_path))

\* the records handed to do_ocr
OcrCandidates(recs) ==
    SelectSeq([i \in 1..Len(recs) |-> i],
              LAMBDA i : /\ recs[i].integrity = "ok"
                         /\ recs[i].duplicate_of = NoPath
                         /\ OcrSelected(recs[i]))

\* the files of the destination after the OCR stage, when ocrmypdf
\* succeeded on the records of done: its output replaces dest, and the
\* other candidates are copied
RECURSIVE OcrFiles(_, _, _, _)
OcrFiles(recs, cands, done, made) ==
    IF cands = <<>> THEN made
    ELSE LET r == recs[Head(cands)]
         IN  IF r.dest_path = NoPath THEN OcrFiles(recs, Tail(cands), done, made)
             ELSE IF Head(cands) \in done
             THEN OcrFiles(recs, Tail(cands), done,
                           {c \in made : c[2] # r.dest_path}
                              \cup {<<r.source_path, r.dest_path>>})
             ELSE OcrFiles(recs, Tail(cands), done,
                           copy_or_move(made, r.source_path, r.dest_path))

\* commit_moves: the repair loop, the initial copy, the OCR stage (qpdf and
\* ocrmypdf succeed on some of their inputs); setting the file times changes
\* neither records nor the set of files
CommitMoves ==
    /\ phase = "manifested"
    /\ commit
    /\ \E fixed \in SUBSET RepairCandidates(records) :
       \E recs1 \in {Repaired(records, fixed)} :
       \E made1 \in {InitialCopy(recs1, 1,
                        {<<recs1[i].source_path, recs1[i].dest_path>> : i \in fixed})} :
       \E ocr_ok \in SUBSET {i \in Range(OcrCandidates(recs1)) :
                                 recs1[i].dest_path # NoPath} :
          /\ records' = [i \in 1..Len(recs1) |->
                           IF i \in ocr_ok
                           THEN [recs1[i] EXCEPT !.pdf_ocr_applied = 1]
                           ELSE recs1[i]]
          /\ copied' = OcrFiles(recs1, OcrCandidates(recs1), ocr_ok, made1)
    /\ phase' = "done"
    /\ UNCHANGED <<dvars, groups_done, assign_log, files, processed, failures,
                   bins_plan, error, cfgvars, hash_done, manifest,
                   manifest_writes, first_run>>

\* run without --commit: "DRY RUN complete"
DryRunComplete ==
    /\ phase = "manifested"
    /\ ~commit
    /\ phase' = "done"
    /\ UNCHANGED <<dvars, records, groups_done, assign_log, files, processed,
                   failures, bins_plan, error, cfgvars, cvars>>

\* the files of a run that is committed: intact digital and scanned PDFs and
\* damaged ones, with equal or signature-colliding bytes
CommitKinds ==
    [subtype : {"Digital", "Scans"}, integrity : {"ok"},
     mtime : {<<2020, 1, 1, 10, 0>>, <<2021, 3, 1, 9, 0>>}, recovered : {NoTs}]
    \cup [subtype : {"Digital"}, integrity : {"pdfinfo-fail"},
          mtime : {<<2020, 1, 1, 10, 0>>, <<2021, 3, 1, 9, 0>>}, recovered : {NoTs}]

CommitTree ==
    { f \in TreeOf(SourcePaths, CommitKinds, {<<1, 1, 1>>, <<1, 2, 1>>},
                   {<<FALSE, FALSE>>}) :
        /\ f.kind.mtime[1] = 2019 + f.path[1]
        /\ f.guessed = 1 }

\* main's Planner(...) for a run with any of --dry-run, --commit,
\* --pdf-repair on and --pdf-ocr scans
CommitInit ==
    /\ records = <<>>
    /\ max_per_bin = MaxCap
    /\ dest_files = {}
    /\ phase = "discovering"
    /\ groups_done = 0
    /\ assign_log = <<>>
    /\ source_tree = CommitTree
    /\ workers = MaxWorkers
    /\ fail_open = FALSE
    /\ files = <<>>
    /\ processed = {}
    /\ failures = <<>>
    /\ bins_plan = <<>>
    /\ error = ""
    /\ StagesNotRun
    /\ commit \in BOOLEAN
    /\ \E given \in BOOLEAN : dry_run = (given \/ ~commit)
    /\ pdf_repair \in {"off", "on"}
    /\ pdf_ocr \in {"off", "scans"}
    /\ DaemonIdle

CommitNext ==
    \/ Discover \/ ProcessFile \/ StageBuckets \/ HashOne \/ StageMark
    \/ StartPlan \/ PlanCohort \/ WriteManifest \/ CommitMoves \/ DryRunComplete

SpecCommit == CommitInit /\ [][CommitNext]_vars

\* ------------------------------------------------------ running twice
\* the kinds of file of a run that is repeated: three instants of one year,
\* and undated files of two cohorts
TwiceKinds ==
    [subtype : {"Digital"}, integrity : {"ok"},
     mtime : {<<2020, 1, 1, 10, 0>>, <<2020, 1, 1, 10, 5>>, <<2020, 2, 1, 9, 0>>},
     recovered : {NoTs}]
    \cup [subtype : {"Digital", "Scans"}, integrity : {"ok"}, mtime : {RecentDate},
          recovered : {NoTs}]

TwiceTree ==
    { f \in TreeOf(SourcePaths, TwiceKinds,
                   {<<p[1], 1, p[3]>> : p \in SourcePaths}, {<<FALSE, FALSE>>}) :
        /\ f.content = <<f.path[1], 1, f.path[3]>>
        /\ f.guessed = 1 }

TwiceInit ==
    /\ records = <<>>
    /\ max_per_bin \in 1..MaxCap
    /\ dest_files = {}
    /\ phase = "discovering"
    /\ groups_done = 0
    /\ assign_log = <<>>
    /\ source_tree = TwiceTree
    /\ workers = 1
    /\ fail_open = FALSE
    /\ files = <<>>
    /\ processed = {}
    /\ failures = <<>>
    /\ bins_plan = <<>>
    /\ error = ""
    /\ StagesNotRun
    /\ PlanOnly
    /\ DaemonIdle

\* what a finished plan consists of, without the positions of the records
\* in the collection: the buckets as (cohort, label, member paths) and the
\* destination of every source path
Outcome ==
    [run |-> 1,
     bins |-> {[key |-> bins_plan[n].key, label |-> bins_plan[n].label,
                members |-> {records[i].source_path :
                                i \in Range(bins_plan[n].members)}] :
                 n \in 1..Len(bins_plan)},
     dest |-> {<<records[i].source_path, records[i].dest_path>> :
                 i \in 1..Len(records)}]

\* the lists that hold the elements of s in some order
Reorderings(s) ==
    {t \in [1..Len(s) -> Range(s)] : \A x \in Range(s) : \E i \in 1..Len(s) : t[i] = x}

\* a second run (dry run, nothing was copied) over the same source tree,
\* whose discovery returns the same files in another order
Rerun ==
    /\ phase = "planned"
    /\ first_run = NoRun
    /\ first_run' = Outcome
    /\ \E perm \in Reorderings(files) : perm # files /\ files' = perm
    /\ records' = <<>>
    /\ processed' = {}
    /\ failures' = <<>>
    /\ bins_plan' = <<>>
    /\ assign_log' = <<>>
    /\ groups_done' = 0
    /\ phase' = "processing"
    /\ UNCHANGED <<dvars, error, cfgvars, hash_done, manifest, manifest_writes, copied>>

TwiceNext == PlanNext \/ Rerun

SpecTwice == TwiceInit /\ [][TwiceNext]_vars

\* -------------------------------------------------- bin planning alone
\* plan_bins over one cohort of dated files spread over three years, the
\* middle one with two months, two days and two minutes
BinDates == { <<2019, 6, 1, 9, 0>>, <<2020, 1, 1, 10, 0>>, <<2020, 1, 1, 10, 5>>,
              <<2020, 1, 2, 9, 0>>, <<2020, 2, 1, 9, 0>>, <<2021, 3, 1, 9, 0>> }

\* the i-th file of such a tree: a readable, intact digital PDF with bytes
\* of its own
BinFile(i, date) ==
    [path |-> <<1, i, 1>>,
     kind |-> [subtype |-> "Digital", integrity |-> "ok", mtime |-> date,
               recovered |-> NoTs],
     guessed |-> 1, content |-> <<i, 1, 1>>,
     raises |-> FALSE, hash_raises |-> FALSE]

\* run up to the return of the dedup stage, with one worker: every file has
\* its record, in discovery order, and none is a duplicate
BinsInit ==
    /\ \E n \in 1..MaxBinFiles : \E dates \in [1..n -> BinDates] :
          /\ files = [i \in 1..n |-> BinFile(i, dates[i])]
          /\ records = [i \in 1..n |->
                           process_file(<<1, i, 1>>, BinFile(i, dates[i]).kind,
                                        1, <<i, 1, 1>>)]
          /\ processed = 1..n
          /\ source_tree = {BinFile(i, dates[i]) : i \in 1..n}
    /\ max_per_bin \in 1..MaxCap
    /\ dest_files = {}
    /\ phase = "staged"
    /\ groups_done = 0
    /\ assign_log = <<>>
    /\ workers = 1
    /\ fail_open = FALSE
    /\ failures = <<>>
    /\ bins_plan = <<>>
    /\ error = ""
    /\ StagesNotRun
    /\ PlanOnly
    /\ DaemonIdle

BinsNext == StartPlan \/ PlanCohort

SpecBins == BinsInit /\ [][BinsNext]_vars

\* C10: once plan_bins has returned, no two records have the same destination
\* path.
C10_UniqueDest ==
    phase = "planned" =>
        \A i, j \in 1..Len(records) :
            (i # j /\ records[i].dest_path # NoPath /\ records[j].dest_path # NoPath)
                => records[i].dest_path # records[j].dest_path

\* C11: every bucket plan_bins has produced holds at most max_per_bin
\* records, and so does every bucket directory.
BinDir(path) == SubSeq(path, 1, 3)

C11_BucketCap ==
    /\ \A n \in 1..Len(bins_plan) : Len(bins_plan[n].members) <= max_per_bin
    /\ phase \in {"planning", "planned", "hung"} =>
          \A i \in 1..Len(records) :
              records[i].dest_path # NoPath =>
                  Cardinality({j \in 1..Len(records) :
                      /\ records[j].dest_path # NoPath
                      /\ BinDir(records[j].dest_path) = BinDir(records[i].dest_path)})
                    <= max_per_bin

C11_Witness ==
    /\ phase = "planned"
    /\ max_per_bin = 2
    /\ Len(bins_plan) >= 2
    /\ \E n \in 1..Len(bins_plan) : Len(bins_plan[n].members) = 2

\* C12: once plan_bins has returned, every intact record is in exactly one
\* bucket, once, that bucket is one of its cohort and its dest_path lies in
\* that bucket's directory; no bucket is empty; a record that is not intact
\* is in no bucket and has no dest_path.
Holders(i) ==
    {n \in 1..Len(bins_plan) :
        \E j \in 1..Len(bins_plan[n].members) : bins_plan[n].members[j] = i}

C12_Partition ==
    phase = "planned" =>
        /\ \A n \in 1..Len(bins_plan) : bins_plan[n].members # <<>>
        /\ \A i \in 1..Len(records) :
              IF records[i].integrity = "ok"
              THEN /\ Cardinality(Holders(i)) = 1
                   /\ \A n \in Holders(i) :
                         /\ bins_plan[n].key = GroupKey(records[i])
                         /\ Cardinality({j \in 1..Len(bins_plan[n].members) :
                                           bins_plan[n].members[j] = i}) = 1
                         /\ records[i].dest_path # NoPath
                         /\ BinDir(records[i].dest_path)
                               = bins_plan[n].key \o <<bins_plan[n].label>>
              ELSE /\ Holders(i) = {}
                   /\ records[i].dest_path = NoPath

C12_Witness ==
    /\ phase = "planned"
    /\ Len(bins_plan) >= 2
    /\ \E i, j \in 1..Len(records) :
          records[i].integrity = "ok" /\ records[j].integrity # "ok"

\* C13: when plan_bins has taken up a cohort in which one minute holds more
\* records than the cap, that minute's records, sorted by source path, are
\* in consecutive buckets of at most cap records labelled with the minute
\* label and -001, -002, ...
TakenUp ==
    LET gs == Groups(records)
    IN  {gs[n] : n \in {m \in 1..Len(gs) :
                          m <= groups_done \/ (phase = "hung" /\ m = groups_done + 1)}}

MinuteMembers(key, minute) ==
    SelectSeq(GroupIdxs(records, key),
              LAMBDA i : ResolvedTs(records[i]) = minute)

C13_MinuteOverflow ==
    phase \in {"planning", "planned", "hung"} =>
        \A key \in TakenUp : \A minute \in OldDates :
            LET mem == MinuteMembers(key, minute)
                srt == StableSort(mem, PathKeys(records, mem))
                cap == max_per_bin
                label == label_minute_range(minute[1], minute[2], minute[3],
                             minute[4], minute[5], minute[4], minute[5])
            IN  Len(mem) > cap =>
                  \A pi \in 1..((Len(mem) + cap - 1) \div cap) :
                      \E n \in 1..Len(bins_plan) :
                          /\ bins_plan[n].key = key
                          /\ bins_plan[n].label = label \o Dash \o Pad(pi, 3)
                          /\ bins_plan[n].members =
                                SubSeq(srt, (pi - 1) * cap + 1,
                                       IF pi * cap < Len(srt) THEN pi * cap
                                       ELSE Len(srt))

\* the dedup stage has returned
Staged == phase \in {"staged", "planning", "planned", "hung", "manifested", "done"}

\* the records whose stored full hash is the non-empty hash of record i
SameFull(i) ==
    {j \in 1..Len(records) : records[j].fullhash = records[i].fullhash}

\* C14: after the dedup stage, among the records that share a non-empty full
\* hash exactly one has an empty duplicate_of, and every other one's
\* duplicate_of is that record's source_path.
C14_OneKeeperPerHash ==
    Staged =>
      \A i \in 1..Len(records) :
         records[i].fullhash # NoHash =>
            \E k \in SameFull(i) :
               /\ records[k].duplicate_of = NoPath
               /\ \A j \in SameFull(i) \ {k} :
                     records[j].duplicate_of = records[k].source_path

\* three copies of the same bytes went through the stage: one kept, two marked
C14_Witness ==
    /\ Staged
    /\ \E i \in 1..Len(records) :
          /\ records[i].fullhash # NoHash
          /\ Cardinality(SameFull(i)) = 3
          /\ Cardinality({j \in SameFull(i) : records[j].duplicate_of # NoPath}) = 2

\* C19: no false dedup.  A record is only ever marked as duplicate of another
\* record with the same, computed, full hash as its own; so records that
\* share a signature but differ in full hash and have no equal-hash partner
\* keep an empty duplicate_of.
C19_NoFalseDedup ==
    \A i \in 1..Len(records) :
       records[i].duplicate_of # NoPath =>
          \E j \in 1..Len(records) \ {i} :
             /\ records[j].source_path = records[i].duplicate_of
             /\ records[i].fullhash # NoHash
             /\ records[j].fullhash = records[i].fullhash
             /\ full_hash(FileOf(records[i].source_path).content)
                   = full_hash(FileOf(records[j].source_path).content)

\* two files with equal size, head and tail but different bytes in between
\* went through the stage and both are kept
C19_Witness ==
    /\ Staged
    /\ \E i, j \in 1..Len(records) :
          /\ records[i].sig = records[j].sig
          /\ records[i].fullhash # NoHash
          /\ records[j].fullhash # NoHash
          /\ records[i].fullhash # records[j].fullhash
          /\ records[i].duplicate_of = NoPath
          /\ records[j].duplicate_of = NoPath

\* the position of a source path in the discovered file list
DiscoveryIndex(path) == CHOOSE n \in 1..Len(files) : files[n].path = path

\* the processing phase is over: list(ex.map(worker, files)) has returned
Processed == phase \notin {"discovering", "processing"}

\* C15: keeper determinism.  After the dedup stage the kept record of every
\* full-hash group (the one with empty duplicate_of) is the member that was
\* discovered first, whatever the order in which the workers finished.
C15_KeeperEarliestDiscovered ==
    Staged =>
      \A i, k \in 1..Len(records) :
         ( /\ records[i].fullhash # NoHash
           /\ records[k].fullhash = records[i].fullhash
           /\ records[k].duplicate_of = NoPath )
         => DiscoveryIndex(records[k].source_path)
               <= DiscoveryIndex(records[i].source_path)

\* C16: the record collection is in discovery order: records appear in the
\* same relative order as their files in the discovered file list, for any
\* number of workers and any order of completion.
C16_DiscoveryOrder ==
    \A a, b \in 1..Len(records) :
       a < b => DiscoveryIndex(records[a].source_path)
                   < DiscoveryIndex(records[b].source_path)

\* C17: a classification failure never aborts the run.  In a run where every
\* file can be hashed, a failure of process_file on some file, with or
\* without BC_FAIL_OPEN, never leaves run with an exception.
C17_FailureNeverAborts ==
    ( /\ failures # <<>>
      /\ \A n \in 1..Len(files) : ~files[n].hash_raises )
    => phase # "crashed"

\* C18: after the processing phase every discovered file has exactly one
\* record, and no two records have the same source_path.
C18_OneRecordPerFile ==
    Processed =>
      \A n \in 1..Len(files) :
         Cardinality({j \in 1..Len(records) :
                         records[j].source_path = files[n].path}) = 1

\* C20: when the full hash of a member of a signature-collision group cannot
\* be computed, the dedup stage still completes, that member keeps an empty
\* duplicate_of, and the other members of the group are grouped by their
\* full hashes: of two of them with the same bytes one is marked.
C20_HashFailureTolerated ==
    ( Processed /\ failures = <<>> ) =>
      \A i \in 1..Len(records) :
         ( InMulti(records, i) /\ FileOf(records[i].source_path).hash_raises )
         => /\ phase # "crashed"
            /\ records[i].duplicate_of = NoPath
            /\ \A j, k \in SigBucket(records, i) :
                  ( /\ j # k
                    /\ ~FileOf(records[j].source_path).hash_raises
                    /\ ~FileOf(records[k].source_path).hash_raises
                    /\ FileOf(records[j].source_path).content
                          = FileOf(records[k].source_path).content )
                  => \/ records[j].duplicate_of = records[k].source_path
                     \/ records[k].duplicate_of = records[j].source_path

\* C21: after dedup, a record with a non-empty duplicate_of references the
\* source_path of a different record that has the same non-empty full hash,
\* a smaller index in the record collection and an empty duplicate_of of its
\* own: no self-reference and no chain of duplicates.
C21_DuplicateRefersToKeeper ==
    Staged =>
      \A i \in 1..Len(records) :
         records[i].duplicate_of # NoPath =>
            \E k \in 1..Len(records) :
               /\ records[k].source_path = records[i].duplicate_of
               /\ k # i
               /\ k < i
               /\ records[i].fullhash # NoHash
               /\ records[k].fullhash = records[i].fullhash
               /\ records[k].duplicate_of = NoPath

\* a pair of copies next to an unrelated file: the later record of the pair
\* is marked and references the earlier one
C21_Witness ==
    /\ Staged
    /\ Len(records) = 3
    /\ \E i, k \in 1..Len(records) :
          /\ k < i
          /\ records[i].duplicate_of = records[k].source_path
          /\ Cardinality(SameFull(i)) = 2

\* the cohorts whose iteration of the groups loop is over
PlannedKeys == {Groups(records)[n] : n \in 1..groups_done}

\* a label of the form undated-NNNN
IsUndatedLabel(label) ==
    /\ Len(label) = Len(UndatedPrefix) + 4
    /\ SubSeq(label, 1, Len(UndatedPrefix)) = UndatedPrefix

\* the intact records of a cohort that have no resolved date, by source path
UndatedOfCohort(key) ==
    LET u == SelectSeq(GroupIdxs(records, key),
                       LAMBDA i : ResolvedTs(records[i]) = NoTs)
    IN  StableSort(u, PathKeys(records, u))

\* C25: a record with no resolved date is placed only in a bucket labelled
\* undated-NNNN; the undated buckets of a cohort are the consecutive chunks of
\* at most cap records of its undated records sorted by source path, numbered
\* from 0001; no undated bucket holds a dated record and no dated bucket an
\* undated one.
C25_UndatedChunks ==
    /\ \A n \in 1..Len(bins_plan) : \A j \in 1..Len(bins_plan[n].members) :
          IsUndatedLabel(bins_plan[n].label)
             <=> ResolvedTs(records[bins_plan[n].members[j]]) = NoTs
    /\ \A key \in PlannedKeys :
          LET u == UndatedOfCohort(key)
              nparts == (Len(u) + max_per_bin - 1) \div max_per_bin
              ub == {n \in 1..Len(bins_plan) :
                        bins_plan[n].key = key /\ IsUndatedLabel(bins_plan[n].label)}
          IN  /\ Cardinality(ub) = nparts
              /\ \A k \in 1..nparts : \E n \in ub :
                    /\ bins_plan[n].label = UndatedPrefix \o Pad(k, 4)
                    /\ bins_plan[n].members =
                          [x \in 1..(IF k * max_per_bin <= Len(u) THEN max_per_bin
                                     ELSE Len(u) - (k - 1) * max_per_bin) |->
                              u[(k - 1) * max_per_bin + x]]

\* a planned cohort with a dated bucket and the undated buckets 0001 and 0002
C25_Witness ==
    /\ phase = "planned"
    /\ \E a, b, c \in 1..Len(bins_plan) :
          /\ bins_plan[a].key = bins_plan[b].key
          /\ bins_plan[b].key = bins_plan[c].key
          /\ ~IsUndatedLabel(bins_plan[a].label)
          /\ bins_plan[b].label = UndatedPrefix \o Pad(1, 4)
          /\ bins_plan[c].label = UndatedPrefix \o Pad(2, 4)

LabelOf(i) == bins_plan[CHOOSE n \in Holders(i) : TRUE].label

\* C27: destinations are assigned in a fixed order.  Within a cohort the
\* calls of _assign_dest go through the buckets in ascending label order and
\* through the records of a bucket in ascending source_path order, whatever
\* the order of the records in the collection; no record is assigned twice,
\* and when plan_bins returns every intact record has been assigned once.
C27_AssignOrder ==
    /\ \A a, b \in 1..Len(assign_log) :
          a < b =>
             /\ assign_log[a] # assign_log[b]
             /\ GroupKey(records[assign_log[a]]) = GroupKey(records[assign_log[b]])
                   => \/ LexLess(LabelOf(assign_log[a]), LabelOf(assign_log[b]))
                      \/ /\ LabelOf(assign_log[a]) = LabelOf(assign_log[b])
                         /\ LexLess(records[assign_log[a]].source_path,
                                    records[assign_log[b]].source_path)
    /\ phase = "planned" =>
          \A i \in 1..Len(records) :
             records[i].integrity = "ok" =>
                \E a \in 1..Len(assign_log) : assign_log[a] = i

\* a finished plan in which a cohort's records were assigned in an order
\* other than their order in the collection
C27_Witness ==
    /\ phase = "planned"
    /\ Len(assign_log) = 3
    /\ \E a, b \in 1..Len(assign_log) :
          /\ a < b
          /\ assign_log[a] > assign_log[b]
          /\ GroupKey(records[assign_log[a]]) = GroupKey(records[assign_log[b]])

\* the intact records of a cohort that have a resolved instant
DatedOfCohort(key) ==
    {i \in Range(GroupIdxs(records, key)) : ResolvedTs(records[i]) # NoTs}

\* the buckets of a cohort that hold its dated records
DatedBins(key) ==
    {n \in 1..Len(bins_plan) :
        bins_plan[n].key = key /\ ~IsUndatedLabel(bins_plan[n].label)}

\* the planned cohorts whose dated records all fall in the year y
OneYearCohort(key, y) ==
    /\ key \in PlannedKeys
    /\ DatedOfCohort(key) # {}
    /\ \A i \in DatedOfCohort(key) : ResolvedTs(records[i])[1] = y

\* a label of a month or a month range within the year y
IsMonthLabel(label, y) ==
    \E m1, m2 \in 1..12 : m1 <= m2 /\ label = label_month_range(y, m1, m2)

\* the years the dated records of a cohort fall in
YearsOf(key) == {ResolvedTs(records[i])[1] : i \in DatedOfCohort(key)}

InMonth(key, y, m) ==
    {i \in DatedOfCohort(key) : ResolvedTs(records[i])[2] = m}

C24_OrderIndependent ==
    first_run # NoRun =>
       /\ phase # "hung"
       /\ phase = "planned" => Outcome = first_run

\* a second run has finished over three files of which two are undated
\* files of one cohort, discovered this time in descending path order
C24_Witness ==
    /\ first_run # NoRun
    /\ phase = "planned"
    /\ Len(records) = 3
    /\ \E i, j \in 1..Len(records) :
          /\ i < j
          /\ LexLess(records[j].source_path, records[i].source_path)
          /\ GroupKey(records[i]) = GroupKey(records[j])
          /\ ResolvedTs(records[i]) = NoTs
          /\ ResolvedTs(records[j]) = NoTs

\* the marking loops have run over every full-hash group
MarkingDone ==
    \A i \in HashTasks(records) :
       records[i].fullhash # NoHash =>
          (records[i].duplicate_of # NoPath <=> i \in marked(by_full(records, i)))

\* C22: phase barrier.  What a stage leaves behind is only ever seen once
\* the stage before it is complete: a full hash or a running hash pool only
\* when every processing worker has returned, a duplicate mark only when
\* every hash task has returned, a bucket or a destination only when the
\* marking is complete, a manifest only with the destinations of its intact
\* records assigned, and a copied file only when the manifest is written.
C22_PhaseBarrier ==
    /\ (phase = "hashing" \/ hash_done # {}
           \/ \E i \in 1..Len(records) : records[i].fullhash # NoHash)
          => /\ processed = 1..Len(files)
             /\ Len(records) = Len(files)
    /\ (\E i \in 1..Len(records) : records[i].duplicate_of # NoPath)
          => hash_done = HashTasks(records)
    /\ (phase = "planning" \/ bins_plan # <<>>
           \/ \E i \in 1..Len(records) : records[i].dest_path # NoPath)
          => /\ hash_done = HashTasks(records)
             /\ MarkingDone
    /\ manifest_writes > 0
          => /\ Len(manifest) = Len(files)
             /\ \A n \in 1..Len(manifest) :
                   manifest[n].integrity = "ok" => manifest[n].dest_path # NoPath
    /\ copied # {} => manifest_writes = 1

\* a committed run that went through every stage: three files hashed, one
\* marked as duplicate, the manifest written and files copied
C22_Witness ==
    /\ phase = "done"
    /\ Cardinality(hash_done) = 3
    /\ \E i \in 1..Len(records) : records[i].duplicate_of # NoPath
    /\ manifest_writes = 1
    /\ copied # {}

\* C23: when commit_moves begins, every record with integrity ok and an
\* empty duplicate_of has a non-empty dest_path.
C23_DestBeforeCommit ==
    (phase = "manifested" /\ commit) =>
       \A i \in 1..Len(records) :
          (records[i].integrity = "ok" /\ records[i].duplicate_of = NoPath)
             => records[i].dest_path # NoPath

\* commit_moves is about to begin over an intact record that is kept, a
\* duplicate and a damaged record
C23_Witness ==
    /\ phase = "manifested"
    /\ commit
    /\ \E i, j, k \in 1..Len(records) :
          /\ records[i].integrity = "ok"
          /\ records[i].duplicate_of = NoPath
          /\ records[i].dest_path # NoPath
          /\ records[j].duplicate_of # NoPath
          /\ records[k].integrity # "ok"

\* C29: when --dry-run is given no source file is copied or moved into the
\* destination, whatever other flags accompany it.
C29_DryRunCopiesNothing ==
    dry_run => copied = {}

\* C30: the manifest is written exactly once per run, has one row per
\* record, and its rows carry the field values the records have when the
\* run finishes.
C30_ManifestFinal ==
    phase = "done" =>
       /\ manifest_writes = 1
       /\ Len(manifest) = Len(records)
       /\ \A i \in 1..Len(records) : manifest[i] = Row(records[i])

\* C38: with the external tool installed no invocation returns the
\* not-found triple (127, "", "exiftool-not-found"), whatever the
\* interleaving of the callers' first calls of available().
C38_InstalledNeverNotFound ==
    toolPresent => \A c \in Callers : cret[c] # NotFoundResult

\* the worker has taken request r from the queue
Taken(r) == reqs[r].done \/ cur = r

\* the calls in progress hold pairwise distinct correlation ids, and no id
\* is on the queue twice
DistinctIds ==
    /\ \A c1, c2 \in Callers :
          (c1 # c2 /\ crid[c1] # None) => crid[c1] # crid[c2]
    /\ \A i, j \in 1..Len(q) : i # j => q[i] # q[j]
    /\ \A i \in 1..Len(q) : q[i] # cur

\* C39: correlation ids are pairwise distinct and requests are written to
\* the subprocess in increasing id order: when the worker has written a
\* request, no request with a larger id has been written before it.
C39_IdOrder ==
    /\ DistinctIds
    /\ \A r1, r2 \in Rids :
          (r1 < r2 /\ cur = r1 /\ reqs[r1].pid # None) => reqs[r2].pid = None

\* C39, amended: correlation ids are pairwise distinct and requests are
\* served in the order they were put on the queue: a request put earlier
\* has been taken by the worker, and completed, before one put later is
\* taken.
C39_QueueOrder ==
    /\ DistinctIds
    /\ \A r1, r2 \in Rids :
          (reqs[r1].seq # 0 /\ reqs[r1].seq < reqs[r2].seq) =>
              /\ Taken(r2) => Taken(r1)
              /\ cur = r2 => reqs[r1].done

C39_Witness ==
    \E r1, r2 \in Rids :
        /\ r1 < r2
        /\ reqs[r2].seq = 1 /\ reqs[r1].seq = 2
        /\ reqs[r2].done /\ reqs[r2].pid # None
        /\ cur = r1 /\ reqs[r1].pid # None

\* C37: a caller blocked in call() is eventually released when stop() has
\* been called: with the tool installed, once stop() has returned and the
\* worker is between two requests, every caller waiting for its completion
\* signal eventually gets a result triple.
C37_CallerReleased ==
    \A c \in Callers :
        (cpc[c] = "wait" /\ spc = "done" /\ toolPresent
            /\ wpc \in {"loop", "exited"})
        ~> cpc[c] = "idle"

DedupStep ==
    \/ phase \in {"discovering", "processing"}
          /\ phase' \in {"hashing", "staged", "crashed"}
    \/ phase = "hashing"

\* new is old with at most fullhash and duplicate_of changed
OnlyDedupFields(old, new) ==
    \/ new = old
    \/ /\ DOMAIN new = DOMAIN old
       /\ \A f \in DOMAIN old \ {"fullhash", "duplicate_of"} : new[f] = old[f]

\* C32: the dedup stage removes, adds and reorders no record and changes
\* only the fullhash and duplicate_of fields; a record whose signature no
\* other record shares is left with both fields empty.
C32_DedupFrame ==
    [][ DedupStep =>
          /\ Len(records') = Len(records)
          /\ \A i \in 1..Len(records) :
                /\ OnlyDedupFields(records[i], records'[i])
                /\ ("sig" \in DOMAIN records[i]
                      /\ \A j \in 1..Len(records) :
                            (j # i /\ "sig" \in DOMAIN records[j])
                               => records[j].sig # records[i].sig)
                   => (records'[i].fullhash = NoHash
                         /\ records'[i].duplicate_of = NoPath) ]_vars

C32_Witness ==
    /\ phase = "staged"
    /\ \E i, j, k \in 1..Len(records) :
          /\ records[i].fullhash # NoHash /\ records[i].duplicate_of = NoPath
          /\ records[j].duplicate_of = records[i].source_path
          /\ records[k].sig # records[i].sig
          /\ records[k].fullhash = NoHash /\ records[k].duplicate_of = NoPath

\* the resolved instants of the records, and the dated records of a cohort
\* in plan_bins' sorted order
Instants == [i \in 1..Len(records) |-> ResolvedTs(records[i])]

DatedIn(key) == DatedOf(Instants, GroupIdxs(records, key))

\* the periods plan_bins refines: the whole cohort (<<>>) and its heavy
\* years and months
RefinedIn(tss, dated, cap) ==
    {<<>>} \cup {k \in {KeyOf(tss[i], n) : i \in Range(dated), n \in 1..2} :
                   Len(Members(tss, dated, k)) > cap}

\* the runs of consecutive non-heavy years, months and days that plan_bins
\* hands to _greedy_merge
RunsIn(tss, dated, cap) ==
    UNION { LET keys == KeysBelow(tss, dated, p, Len(p) + 1)
                pieces == Pieces(keys,
                              {k \in Range(keys) : Len(Members(tss, dated, k)) > cap},
                              <<>>)
            IN  {pieces[i].keys : i \in {j \in 1..Len(pieces) : ~pieces[j].heavy}}
          : p \in RefinedIn(tss, dated, cap) }

\* the level of a bin label: 1 year, 2 month, 3 day, 5 minute
LabelLevel(label) ==
    IF \E i \in 1..Len(label) : label[i] = Underscore[1] THEN 5
    ELSE IF Len(label) \in {4, 9} THEN 1
    ELSE IF Len(label) \in {7, 15} THEN 2
    ELSE 3

\* what C33 says of the spans of one run
PackedWell(run, counts, cap) ==
    LET g == greedy_merge(run, counts, cap)
        n == Len(g.spans)
        pops == [x \in 1..n |->
                   LET sp == g.spans[x]
                   IN  Len(Concat([j \in 1..(sp[2] - sp[1]) |->
                              [c \in 1..counts[run[sp[1] + j]] |-> c]]))]
    IN  /\ ~g.diverged
        /\ n >= 1
        /\ g.spans[1][1] = 0
        /\ g.spans[n][2] = Len(run)
        /\ \A x \in 1..n :
              /\ g.spans[x][1] < g.spans[x][2]
              /\ pops[x] <= cap
        /\ \A x \in 1..(n - 1) :
              /\ g.spans[x][2] = g.spans[x + 1][1]
              /\ pops[x] + counts[run[g.spans[x + 1][1] + 1]] > cap

LevelFor(tss, dated, i, cap) ==
    IF Len(Members(tss, dated, KeyOf(tss[i], 1))) <= cap THEN 1
    ELSE IF Len(Members(tss, dated, KeyOf(tss[i], 2))) <= cap THEN 2
    ELSE IF Len(Members(tss, dated, KeyOf(tss[i], 3))) <= cap THEN 3
    ELSE 5

\* C34: a year, month or day is refined to the next finer granularity if and
\* only if it holds strictly more than max_per_bin records: every dated
\* record lands in a bucket labelled at the granularity of the coarsest of
\* its periods that is not heavy, a period exactly at the cap included.
C34_HeavyIsStrict ==
    phase = "planned" =>
       \A b \in 1..Len(bins_plan) :
          LET tss == Instants
              dated == DatedOf(tss, GroupIdxs(records, bins_plan[b].key))
          IN  \A i \in Range(bins_plan[b].members) :
                 tss[i] # NoTs =>
                    LabelLevel(bins_plan[b].label)
                       = LevelFor(tss, dated, i, max_per_bin)

\* a year above the cap is refined, and its month exactly at the cap is a
\* month bucket
C34_Witness ==
    /\ phase = "planned"
    /\ max_per_bin = 2
    /\ \E a, b \in 1..Len(bins_plan) :
          /\ bins_plan[a].label = label_month_range(2020, 1, 1)
          /\ Len(bins_plan[a].members) = max_per_bin
          /\ bins_plan[b].label = label_month_range(2020, 2, 2)

\* the record process_file built for the file of record i
AsProcessed(i) ==
    LET f == FileOf(records[i].source_path)
    IN  process_file(f.path, f.kind, f.guessed, f.content)

\* C35: when plan_bins has returned, an intact record with a recovered date
\* is in a dated bucket with its date fields as process_file left them; one
\* with no recovered date and undated_flag = 0 is in a dated bucket, with
\* date_source "mtime" and date_local its modification time; every other
\* intact record is in an undated bucket with its date fields unchanged.
C35_DatedUnknownSplit ==
    phase = "planned" =>
       \A i \in 1..Len(records) :
          records[i].integrity = "ok" =>
             LET was == AsProcessed(i)
             IN  IF was.date_local # NoDate
                 THEN /\ ~IsUndatedLabel(LabelOf(i))
                      /\ records[i].date_source = was.date_source
                      /\ records[i].date_local = was.date_local
                 ELSE IF was.undated_flag = 0
                 THEN /\ ~IsUndatedLabel(LabelOf(i))
                      /\ records[i].date_source = "mtime"
                      /\ records[i].date_local = was.mtime_local
                 ELSE /\ IsUndatedLabel(LabelOf(i))
                      /\ records[i].date_source = was.date_source
                      /\ records[i].date_local = was.date_local

C35_Witness ==
    /\ phase = "planned"
    /\ \E i, j, k \in 1..Len(records) :
          /\ records[i].date_source = "pdfinfo" /\ ~IsUndatedLabel(LabelOf(i))
          /\ records[j].date_source = "mtime" /\ ~IsUndatedLabel(LabelOf(j))
          /\ records[j].date_local = records[j].mtime_local
          /\ records[k].integrity = "ok" /\ records[k].date_local = NoDate
          /\ records[k].undated_flag = 1 /\ IsUndatedLabel(LabelOf(k))

\* C36: plan_bins terminates, whatever the records and the cap, also when
\* one minute holds more records than the cap: it never enters a call of
\* _greedy_merge whose loop cannot end.
C36_PlanBinsTerminates ==
    phase # "hung"

\* the destination commit_moves gives record r: dest_path when the record is
\* intact, the damaged directory otherwise
OwnDest(r) == IF r.integrity = "ok" THEN r.dest_path ELSE DamagedPath(r)

\* C40: after commit_moves with commit enabled, the bytes of every record
\* that is not marked as a duplicate are in the file at that record's own
\* destination: no such record is skipped because the destination file was
\* made for another record.
C40_CommitLosesNoFile ==
    (phase = "done" /\ commit) =>
       \A i \in 1..Len(records) :
          records[i].duplicate_of = NoPath =>
             \E c \in copied :
                /\ c[2] = OwnDest(records[i])
                /\ FileOf(c[1]).content = FileOf(records[i].source_path).content

====
